---- MODULE Spec2Model ----
(***************************************************************************)
(* Model of the scoring core of the customer-health dashboard:             *)
(*   - ScoreOptimizer (src/src/ml/scoreOptimizer.ts): calculateHealthScore,*)
(*     the A/B test manager (setupABTest, assignVariant, recordConversion, *)
(*     analyzeABTestResults) and calculateCorrelation;                     *)
(*   - the correlation-to-weight step of calculateOptimizedWeights         *)
(*     (src/src/data/customerData.ts) and calculateStatisticalWeights /    *)
(*     generateOptimizedWeights (src/src/data/largeCustomerDataset.ts),    *)
(*     and the correlation the first two compute in line;                  *)
(*   - the prediction of RealTimeScorer.scoreCustomer                      *)
(*     (src/src/ml/realTimeScorer.ts) and of the local fallback of         *)
(*     MLBackendAPI.scoreCustomer (src/src/data/customerData.ts).          *)
(*                                                                         *)
(* Representation.  A JavaScript string is a string; Chars gives its      *)
(* UTF-16 code units where the code reads them.  A JavaScript number is an *)
(* IEEE 754 double, computed bit for bit: every operation rounds as the    *)
(* language says (see Numbers).  A JavaScript object is the sequence of    *)
(* its own [key, value] entries in property order (integer-like keys in    *)
(* ascending order, then the other keys in insertion order), or a function *)
(* on its own keys where the order is never read.                          *)
(***************************************************************************)
EXTENDS Integers, Sequences, FiniteSets, TLC

VARIABLES
    featureWeights,   \* ScoreOptimizer.featureWeights
    abTestGroups,     \* ScoreOptimizer.abTestGroups: own test name -> ABTestConfig
    ret,              \* what the last call returned (or that it threw)
    assigned,         \* history: <<test, customer>> -> variant first returned since the test's setup
    ops,              \* number of calls made so far
    hsWeights,        \* calculateHealthScore: the weights argument
    hsRecord,         \* calculateHealthScore: the customerData argument
    hsResult,         \* calculateHealthScore: the returned number
    rawScores,        \* weight normalizer: the raw per-metric scores
    normWeights,      \* weight normalizer: the integer weights it returns
    roundTrip,        \* calculateHealthScore on normWeights and an all-ones record
    corrX, corrY,     \* calculateCorrelation: the two arrays
    corrResult,       \* calculateCorrelation: the returned number, both argument orders
    hashCustomer,     \* assignVariant's hash: the code units of customerId
    hashTest,         \* assignVariant's hash: testName
    hashResult,       \* assignVariant's hash: hashValue and hashPct
    dataset,          \* calculateOptimizedWeights / calculateStatisticalWeights: the data argument
    weightsResult,    \* ... the function called, its correlations and the weights it returns
    monoCustomer,     \* calculateHealthScore with default weights: a customer record
    monoRaised,       \* ... a feature of it and a value not below the one it has
    monoScores,       \* ... the scores of the record and of the record with the feature raised
    predCustomer,     \* the customerData given to both local scoring paths
    realTimeResult,   \* what RealTimeScorer.scoreCustomer returns for it
    fallbackResult,   \* what the local fallback of MLBackendAPI.scoreCustomer returns for it
    scoringThreshold  \* RealTimeScorer.scoringThreshold

vars == <<featureWeights, abTestGroups, ret, assigned, ops,
          hsWeights, hsRecord, hsResult,
          rawScores, normWeights, roundTrip,
          corrX, corrY, corrResult,
          hashCustomer, hashTest, hashResult,
          dataset, weightsResult,
          monoCustomer, monoRaised, monoScores,
          predCustomer, realTimeResult, fallbackResult, scoringThreshold>>

abVars    == <<featureWeights, abTestGroups, ret, assigned, ops>>
hsVars    == <<hsWeights, hsRecord, hsResult>>
normVars  == <<rawScores, normWeights, roundTrip>>
corrVars  == <<corrX, corrY, corrResult>>
hashVars  == <<hashCustomer, hashTest, hashResult>>
wVars     == <<dataset, weightsResult>>
monoVars  == <<monoCustomer, monoRaised, monoScores>>
predVars  == <<predCustomer, realTimeResult, fallbackResult, scoringThreshold>>

----------------------------------------------------------------------------
(* Strings *)

\* The UTF-16 code units of the strings the model uses (s.charCodeAt(i))
Chars(s) ==
    IF s = "t1" THEN <<116, 49>> ELSE
    IF s = "ab" THEN <<97, 98>> ELSE
    IF s = "toString" THEN <<116, 111, 83, 116, 114, 105, 110, 103>> ELSE
    IF s = "cust_7" THEN <<99, 117, 115, 116, 95, 55>> ELSE
    IF s = "u42" THEN <<117, 52, 50>> ELSE
    IF s = "gxkczl2" THEN <<103, 120, 107, 99, 122, 108, 50>> ELSE
    IF s = "A" THEN <<65>> ELSE
    IF s = "B" THEN <<66>> ELSE
    IF s = "C" THEN <<67>> ELSE
    IF s = "D" THEN <<68>> ELSE
    IF s = "1" THEN <<49>> ELSE
    IF s = "2" THEN <<50>> ELSE
    IF s = "9" THEN <<57>> ELSE
    IF s = "10" THEN <<49, 48>> ELSE
    IF s = "0" THEN <<48>> ELSE
    IF s = "01" THEN <<48, 49>> ELSE
    IF s = "1.5" THEN <<49, 46, 53>> ELSE
    IF s = "-1" THEN <<45, 49>> ELSE
    IF s = "4294967294" THEN <<52, 50, 57, 52, 57, 54, 55, 50, 57, 52>> ELSE
    IF s = "4294967295" THEN <<52, 50, 57, 52, 57, 54, 55, 50, 57, 53>> ELSE
    IF s = "default" THEN <<100, 101, 102, 97, 117, 108, 116>> ELSE
    IF s = "productUsageFrequency" THEN <<112, 114, 111, 100, 117, 99, 116, 85, 115, 97, 103, 101, 70, 114, 101, 113, 117, 101, 110, 99, 121>> ELSE
    IF s = "supportTicketVolume" THEN <<115, 117, 112, 112, 111, 114, 116, 84, 105, 99, 107, 101, 116, 86, 111, 108, 117, 109, 101>> ELSE
    IF s = "featureAdoptionRate" THEN <<102, 101, 97, 116, 117, 114, 101, 65, 100, 111, 112, 116, 105, 111, 110, 82, 97, 116, 101>> ELSE
    IF s = "npsScore" THEN <<110, 112, 115, 83, 99, 111, 114, 101>> ELSE
    IF s = "contractValue" THEN <<99, 111, 110, 116, 114, 97, 99, 116, 86, 97, 108, 117, 101>> ELSE
    IF s = "timeSinceLastLogin" THEN <<116, 105, 109, 101, 83, 105, 110, 99, 101, 76, 97, 115, 116, 76, 111, 103, 105, 110>> ELSE
    IF s = "churnProbability" THEN <<99, 104, 117, 114, 110, 80, 114, 111, 98, 97, 98, 105, 108, 105, 116, 121>> ELSE
    IF s = "daysSinceLastLogin" THEN <<100, 97, 121, 115, 83, 105, 110, 99, 101, 76, 97, 115, 116, 76, 111, 103, 105, 110>> ELSE
    IF s = "supportTicket" THEN <<115, 117, 112, 112, 111, 114, 116, 84, 105, 99, 107, 101, 116>> ELSE
    IF s = "supportTickets" THEN <<115, 117, 112, 112, 111, 114, 116, 84, 105, 99, 107, 101, 116, 115>> ELSE
    IF s = "churned" THEN <<99, 104, 117, 114, 110, 101, 100>> ELSE
    IF s = "usage" THEN <<117, 115, 97, 103, 101>> ELSE
    IF s = "SupportTicketsOpen" THEN <<83, 117, 112, 112, 111, 114, 116, 84, 105, 99, 107, 101, 116, 115, 79, 112, 101, 110>> ELSE
    <<>>

\* The code unit of ":"
Colon == <<58>>

\* A slip C14 must notice: names are compared as written, case and all
ToLowerCaseAsWritten(s) == s

\* String.prototype.toLowerCase on the ASCII letters
ToLowerCase(s) ==
    [i \in 1..Len(s) |-> IF s[i] >= 65 /\ s[i] <= 90 THEN s[i] + 32 ELSE s[i]]

\* String.prototype.includes
Includes(s, sub) ==
    \E k \in 0..(Len(s) - Len(sub)) :
        \A j \in 1..Len(sub) : s[k + j] = sub[j]

\* The property names every plain object inherits from Object.prototype
\* (a representative); `name in obj` is true of them whatever obj owns.
ProtoNames == {"toString"}

\* The JavaScript `in` operator on a plain object with own keys `own`
HasProperty(own, key) == key \in own \/ key \in ProtoNames

----------------------------------------------------------------------------
(* Numbers: IEEE 754 binary64, the Number type of JavaScript.              *)
(*                                                                         *)
(* A finite number is s * m * 2^e, held as [c |-> "fin", s, m, e]: s is 1  *)
(* or -1 (zero has a sign too), m the mantissa, below 2^53, as four 14-bit *)
(* limbs with the least significant first, e the exponent of the           *)
(* mantissa's last bit, from -1074 to 971.  Bit 52 of the mantissa is set  *)
(* unless e = -1074 (zero and the subnormal numbers), so a number has one  *)
(* representation.  c is "inf" for the infinities and "nan" for NaN.       *)
(* Every operation returns the correctly rounded result (to nearest, ties  *)
(* to even), as the language defines + - * / and Math.sqrt.                *)

Abs(i) == IF i < 0 THEN -i ELSE i

Max(a, b) == IF a >= b THEN a ELSE b

\* 2^0 .. 2^14
PowersOfTwo ==
    <<1, 2, 4, 8, 16, 32, 64, 128, 256, 512, 1024, 2048, 4096, 8192, 16384>>

Pow2(k) == PowersOfTwo[k + 1]

\* Limb i (from 0) of the natural number n, a sequence of 14-bit limbs
Limb(n, i) == IF i >= 0 /\ i < Len(n) THEN n[i + 1] ELSE 0

\* The 14 bits of n from bit off on (bits below bit 0 are 0)
Window(n, off) ==
    LET q == off \div 14
        r == off % 14
    IN  (Limb(n, q) \div Pow2(r)) + (Limb(n, q + 1) % Pow2(r)) * Pow2(14 - r)

\* n shifted right by off bits (left by -off), as four limbs
Shifted4(n, off) ==
    <<Window(n, off), Window(n, off + 14), Window(n, off + 28), Window(n, off + 42)>>

\* the same, as eight limbs
Shifted8(n, off) ==
    <<Window(n, off), Window(n, off + 14), Window(n, off + 28), Window(n, off + 42),
      Window(n, off + 56), Window(n, off + 70), Window(n, off + 84), Window(n, off + 98)>>

\* The number of bits of the limb x
BitLen14(x) == CHOOSE k \in 0..14 : x < Pow2(k) /\ (k = 0 \/ x >= Pow2(k - 1))

RECURSIVE TopLimb(_, _)
\* The position (from 1) of the highest nonzero limb among the first i, or 0
TopLimb(n, i) == IF i = 0 THEN 0 ELSE IF n[i] # 0 THEN i ELSE TopLimb(n, i - 1)

\* The number of bits of n
BitLen(n) ==
    LET t == TopLimb(n, Len(n))
    IN  IF t = 0 THEN 0 ELSE 14 * (t - 1) + BitLen14(n[t])

\* Bit k of n
Bit(n, k) == (Limb(n, k \div 14) \div Pow2(k % 14)) % 2

\* Some bit of n below bit k is set
AnyBelow(n, k) ==
    \E i \in 1..Len(n) :
        IF 14 * i <= k THEN n[i] # 0
        ELSE IF 14 * (i - 1) < k THEN n[i] % Pow2(k - 14 * (i - 1)) # 0
        ELSE FALSE

RECURSIVE LessFrom(_, _, _)
LessFrom(x, y, i) ==
    IF i = 0 THEN FALSE
    ELSE IF Limb(x, i - 1) # Limb(y, i - 1) THEN Limb(x, i - 1) < Limb(y, i - 1)
    ELSE LessFrom(x, y, i - 1)

\* x < y for natural numbers
LimbsLess(x, y) == LessFrom(x, y, Max(Len(x), Len(y)))

RECURSIVE AddFrom(_, _, _, _, _)
AddFrom(x, y, i, carry, len) ==
    IF i > len THEN <<>>
    ELSE LET t == Limb(x, i - 1) + Limb(y, i - 1) + carry
         IN  <<t % 16384>> \o AddFrom(x, y, i + 1, t \div 16384, len)

\* x + y as len limbs
LimbsAdd(x, y, len) == AddFrom(x, y, 1, 0, len)

RECURSIVE SubFrom(_, _, _, _, _)
SubFrom(x, y, i, borrow, len) ==
    IF i > len THEN <<>>
    ELSE LET t == Limb(x, i - 1) - Limb(y, i - 1) - borrow
         IN  <<t % 16384>> \o SubFrom(x, y, i + 1, IF t < 0 THEN 1 ELSE 0, len)

\* x - y as len limbs, for x >= y
LimbsSub(x, y, len) == SubFrom(x, y, 1, 0, len)

RECURSIVE ScaleFrom(_, _, _, _)
ScaleFrom(x, d, i, carry) ==
    IF i > Len(x) THEN <<carry>>
    ELSE LET t == x[i] * d + carry
         IN  <<t % 16384>> \o ScaleFrom(x, d, i + 1, t \div 16384)

\* x * d for a limb d, as Len(x) + 1 limbs
LimbsScale(x, d) == ScaleFrom(x, d, 1, 0)

\* a * b for two numbers of four limbs, as eight limbs
LimbsMul(a, b) ==
    LET c1 == a[1] * b[1]
        c2 == a[1] * b[2] + a[2] * b[1] + c1 \div 16384
        c3 == a[1] * b[3] + a[2] * b[2] + a[3] * b[1] + c2 \div 16384
        c4 == a[1] * b[4] + a[2] * b[3] + a[3] * b[2] + a[4] * b[1] + c3 \div 16384
        c5 == a[2] * b[4] + a[3] * b[3] + a[4] * b[2] + c4 \div 16384
        c6 == a[3] * b[4] + a[4] * b[3] + c5 \div 16384
        c7 == a[4] * b[4] + c6 \div 16384
    IN  <<c1 % 16384, c2 % 16384, c3 % 16384, c4 % 16384, c5 % 16384, c6 % 16384,
          c7 % 16384, c7 \div 16384>>

NaN == [c |-> "nan", s |-> 1, m |-> <<0, 0, 0, 0>>, e |-> 0]
Inf(s) == [c |-> "inf", s |-> s, m |-> <<0, 0, 0, 0>>, e |-> 0]
PosInf == Inf(1)
NegInf == Inf(-1)
Zero(s) == [c |-> "fin", s |-> s, m |-> <<0, 0, 0, 0>>, e |-> -1074]

IsNaN(a) == a.c = "nan"
IsFinite(a) == a.c = "fin"
IsZero(a) == a.c = "fin" /\ a.m = <<0, 0, 0, 0>>

\* The number s * m * 2^e, which is infinite from 2^1024 on
Finite(s, m, e) ==
    IF e > 971 THEN Inf(s) ELSE [c |-> "fin", s |-> s, m |-> m, e |-> e]

\* s * m * 2^t, where rounding up may have carried m to 2^53
Carried(s, m, t) ==
    IF m[4] = 2048 THEN Finite(s, <<0, 0, 0, 1024>>, t + 1) ELSE Finite(s, m, t)

\* The bits of n below bit sh round its higher bits q up: to nearest, ties
\* to even
RoundsUp(n, sh, q, inexact) ==
    sh > 0 /\ Bit(n, sh - 1) = 1
           /\ (inexact \/ AnyBelow(n, sh - 1) \/ q[1] % 2 = 1)

\* s * n * 2^e rounded to a mantissa whose last bit has the exponent t,
\* where q is n from bit t - e on
Rounded(s, n, sh, q, inexact, t) ==
    Carried(s, IF RoundsUp(n, sh, q, inexact) THEN LimbsAdd(q, <<1>>, 4) ELSE q, t)

RoundedTo(s, n, e, inexact, t) ==
    Rounded(s, n, t - e, Shifted4(n, t - e), inexact, t)

\* the same for n of len bits
PackBits(s, n, e, inexact, len) ==
    IF len = 0 THEN Zero(s)
    ELSE RoundedTo(s, n, e, inexact, Max(e + len - 53, -1074))

\* The number nearest to s * x, ties to even, where x is n * 2^e, or lies
\* strictly between n * 2^e and (n + 1) * 2^e when inexact is true
Pack(s, n, e, inexact) == PackBits(s, n, e, inexact, BitLen(n))

\* The number of the integer i
Num(i) ==
    LET a == Abs(i)
    IN  Pack(IF i < 0 THEN -1 ELSE 1,
             <<a % 16384, (a \div 16384) % 16384, a \div 268435456>>, 0, FALSE)

\* -a
NumNeg(a) == IF IsNaN(a) THEN a ELSE [a EXCEPT !.s = -a.s]

\* Math.abs
NumAbs(a) == [a EXCEPT !.s = 1]

\* |a| < |b| for finite numbers
MagLess(a, b) == a.e < b.e \/ (a.e = b.e /\ LimbsLess(a.m, b.m))

\* x - y when sub, x + y otherwise, as eight limbs
AddLimbs(x, y, sub) == IF sub THEN LimbsSub(x, y, 8) ELSE LimbsAdd(x, y, 8)

\* a.s * (|a| + |b|), or a.s * (|a| - |b|) when sub, for finite nonzero
\* numbers with |a| >= |b|.  A b below a quarter of a's last bit only makes
\* the result inexact.
AddMag(a, b, sub) ==
    LET d == a.e - b.e
    IN  Pack(a.s,
             AddLimbs(Shifted8(a.m, IF d > 56 THEN -3 ELSE -d),
                      IF d > 56 THEN (IF sub THEN <<1>> ELSE <<>>) ELSE b.m,
                      sub),
             IF d > 56 THEN a.e - 3 ELSE b.e,
             d > 56)

\* a + b for finite nonzero numbers, b being the one of larger magnitude
\* when swap
AddOrdered(a, b, swap) ==
    AddMag(IF swap THEN b ELSE a, IF swap THEN a ELSE b, a.s # b.s)

\* a + b
NumAdd(a, b) ==
    IF IsNaN(a) \/ IsNaN(b) THEN NaN
    ELSE IF ~IsFinite(a) THEN (IF ~IsFinite(b) /\ a.s # b.s THEN NaN ELSE a)
    ELSE IF ~IsFinite(b) THEN b
    ELSE IF IsZero(a) THEN (IF IsZero(b) /\ a.s # b.s THEN Zero(1) ELSE b)
    ELSE IF IsZero(b) THEN a
    ELSE IF a.s # b.s /\ a.m = b.m /\ a.e = b.e THEN Zero(1)
    ELSE AddOrdered(a, b, MagLess(a, b))

\* a - b
NumSub(a, b) == NumAdd(a, NumNeg(b))

\* a * b
NumMul(a, b) ==
    IF IsNaN(a) \/ IsNaN(b) THEN NaN
    ELSE IF ~IsFinite(a) \/ ~IsFinite(b)
    THEN (IF IsZero(a) \/ IsZero(b) THEN NaN ELSE Inf(a.s * b.s))
    ELSE IF IsZero(a) \/ IsZero(b) THEN Zero(a.s * b.s)
    ELSE Pack(a.s * b.s, LimbsMul(a.m, b.m), a.e + b.e, FALSE)

RECURSIVE QuotientDigit(_, _, _)
\* The largest limb d <= qhat with d * b <= r
QuotientDigit(r, b, qhat) ==
    IF LimbsLess(r, LimbsScale(b, qhat)) THEN QuotientDigit(r, b, qhat - 1) ELSE qhat

RECURSIVE QuotientDigits(_, _, _)
\* The limbs QuotientDigits(r, b, k) gives after the limb d of the
\* quotient of rb by b
DigitsAfter(rb, b, k, d) ==
    QuotientDigits(LimbsSub(rb, LimbsScale(b, d), 4), b, k - 1) \o <<d>>

\* Long division: the next k limbs of the quotient of r by b, for r < b and
\* b of 56 bits, after the remainder they leave
QuotientDigits(r, b, k) ==
    IF k = 0 THEN <<r>>
    ELSE LET rb == <<0>> \o r
             est == (rb[5] * 16384 + rb[4]) \div b[4]
         IN  DigitsAfter(rb, b, k,
                         QuotientDigit(rb, b, IF est > 16383 THEN 16383 ELSE est))

\* s * (t * 2^56 + the four limbs qs leaves over its remainder) * 2^e
QuotientPack(s, e, t, qs) ==
    Pack(s, <<qs[2], qs[3], qs[4], qs[5], t>>, e, qs[1] # <<0, 0, 0, 0>>)

\* s * (x / y) * 2^(e + 56) for x and y of 56 bits, t being the integer
\* part of x / y
QuotientFrom(s, x, y, e, t) ==
    QuotientPack(s, e, t,
                 QuotientDigits(IF t = 1 THEN LimbsSub(x, y, 4) ELSE x, y, 4))

Quotient(s, x, y, e) == QuotientFrom(s, x, y, e, IF LimbsLess(x, y) THEN 0 ELSE 1)

\* a / b
NumDiv(a, b) ==
    IF IsNaN(a) \/ IsNaN(b) THEN NaN
    ELSE IF ~IsFinite(a) THEN (IF ~IsFinite(b) THEN NaN ELSE Inf(a.s * b.s))
    ELSE IF ~IsFinite(b) THEN Zero(a.s * b.s)
    ELSE IF IsZero(b) THEN (IF IsZero(a) THEN NaN ELSE Inf(a.s * b.s))
    ELSE IF IsZero(a) THEN Zero(a.s * b.s)
    ELSE LET la == 56 - BitLen(a.m)
             lb == 56 - BitLen(b.m)
         IN  Quotient(a.s * b.s, Shifted4(a.m, -la), Shifted4(b.m, -lb),
                      (a.e - la) - (b.e - lb) - 56)

\* The number a numeric literal n/d denotes, for integers n and d # 0
Rat(n, d) == NumDiv(Num(n), Num(d))

\* a < b (false when either is NaN)
NumLess(a, b) ==
    IF IsNaN(a) \/ IsNaN(b) THEN FALSE
    ELSE IF IsZero(a) /\ IsZero(b) THEN FALSE
    ELSE IF a.s # b.s THEN a.s < b.s
    ELSE IF ~IsFinite(a) THEN a.s = -1 /\ IsFinite(b)
    ELSE IF ~IsFinite(b) THEN b.s = 1
    ELSE IF a.s = 1 THEN MagLess(a, b) ELSE MagLess(b, a)

\* a <= b
NumLeq(a, b) == ~IsNaN(a) /\ ~IsNaN(b) /\ ~NumLess(b, a)

\* a === b: NaN equals nothing, 0 equals -0
NumEq(a, b) == NumLeq(a, b) /\ NumLeq(b, a)

\* Math.round: the nearest integer, halves towards +Infinity
NumRound(a) ==
    IF ~IsFinite(a) \/ IsZero(a) \/ a.e >= 0 THEN a
    ELSE LET ip == Shifted4(a.m, -a.e)
             half == Bit(a.m, -a.e - 1) = 1
             up == half /\ (a.s = 1 \/ AnyBelow(a.m, -a.e - 1))
         IN  Pack(a.s, IF up THEN LimbsAdd(ip, <<1>>, 4) ELSE ip, 0, FALSE)

RECURSIVE RootBits(_, _, _)
\* The largest r with r * r <= n among s + j, j below 2^(i+1)
RootBits(n, s, i) ==
    IF i < 0 THEN s
    ELSE LET c == LimbsAdd(s, Shifted4(<<1>>, -i), 4)
         IN  IF LimbsLess(n, LimbsMul(c, c)) THEN RootBits(n, s, i - 1)
             ELSE RootBits(n, c, i - 1)

\* The number nearest to sqrt(n) * 2^e, r being the integer part of sqrt(n)
RootPack(n, e, r) == Pack(1, r, e, LimbsMul(r, r) # n)

RootOf(n, e) == RootPack(n, e, RootBits(n, <<0, 0, 0, 0>>, 55))

\* Math.sqrt
NumSqrt(a) ==
    IF IsNaN(a) THEN NaN
    ELSE IF IsZero(a) THEN a
    ELSE IF a.s = -1 THEN NaN
    ELSE IF ~IsFinite(a) THEN a
    ELSE LET k0 == 112 - BitLen(a.m)
             k == IF (a.e - k0) % 2 = 0 THEN k0 ELSE k0 - 1
         IN  RootOf(Shifted8(a.m, -k), (a.e - k) \div 2)

\* a is an integer
IsInteger(a) == IsFinite(a) /\ NumEq(NumRound(a), a)

----------------------------------------------------------------------------
(* Math.exp as V8 computes it (ieee754::exp, after fdlibm's e_exp.c): the   *)
(* argument is reduced to x = k*ln2 + r with |r| <= 0.5*ln2, exp(r) comes   *)
(* from a rational approximation and the result is scaled by 2^k.  Each     *)
(* step is a double operation, rounded as the hardware rounds it.           *)

OThreshold == Finite(1, <<14831, 15336, 9263, 1419>>, -43)   \* 0x40862E42 0xFEFA39EF, 709.78...
UThreshold == Finite(-1, <<12369, 5300, 4365, 1490>>, -43)   \* 0xC0874910 0xD52D3051, -745.13...
Ln2HI == Finite(1, <<0, 15232, 9263, 1419>>, -53)            \* 0x3FE62E42 0xFEE00000
Ln2LO == Finite(1, <<15478, 5604, 7923, 1678>>, -85)         \* 0x3DEA39EF 0x35793C76
InvLn2 == Finite(1, <<766, 5294, 5238, 1477>>, -52)          \* 0x3FF71547 0x652B82FE
ExpP1 == Finite(1, <<5438, 5461, 5461, 1365>>, -55)          \* 0x3FC55555 0x5555553E
ExpP2 == Finite(-1, <<15763, 6906, 5825, 1456>>, -61)        \* 0xBF66C16C 0x16BEBD93
ExpP3 == Finite(1, <<7724, 15511, 9898, 1109>>, -66)         \* 0x3F11566A 0xAF25DE2C
ExpP4 == Finite(-1, <<11249, 5961, 5148, 1775>>, -72)        \* 0xBEBBBD41 0xC5D26BF1
ExpP5 == Finite(1, <<9424, 2810, 13975, 1421>>, -77)         \* 0x3E663769 0x72BEA4D0
EulerE == Finite(1, <<5993, 11345, 12456, 1391>>, -51)       \* 0x4005BF0A 0x8B145769

\* The least |x| whose high word is above 0x3FD62E42 (|x| > 0.5 ln2), the
\* least whose high word is not below 0x3FF0A2B2 (1.5 ln2), and 2^-28
AboveHalfLn2 == Finite(1, <<0, 0, 9264, 1419>>, -54)
OneAndHalfLn2 == Finite(1, <<0, 0, 11040, 1064>>, -52)
TwoToMinus28 == Finite(1, <<0, 0, 0, 1024>>, -80)

\* halF[0]
ExpHalf == Rat(1, 2)

\* 2^k as a double, for -1022 <= k <= 1023
TwoTo(k) == Finite(1, <<0, 0, 0, 1024>>, k - 52)

\* static_cast<int>(a): a finite number below 2^28 in size, truncated
Truncated(a) ==
    IF a.e >= 0 THEN 0
    ELSE LET q == Shifted4(a.m, -a.e) IN a.s * (q[1] + 16384 * q[2])

\* c = x - t * (P1 + t * (P2 + t * (P3 + t * (P4 + t * P5))))
ExpPoly(x, t) ==
    NumSub(x, NumMul(t, NumAdd(ExpP1, NumMul(t, NumAdd(ExpP2, NumMul(t,
        NumAdd(ExpP3, NumMul(t, NumAdd(ExpP4, NumMul(t, ExpP5))))))))))

\* y * twopk, and the two cases that need a second factor
ExpScaled(y, k) ==
    IF k >= -1021
    THEN IF k = 1024 THEN NumMul(NumMul(y, Num(2)), TwoTo(1023))
         ELSE NumMul(y, TwoTo(k))
    ELSE NumMul(NumMul(y, TwoTo(k + 1000)), TwoTo(-1000))

\* The value returned for the reduced argument x = hi - lo and its c
ExpResult(x, c, hi, lo, k) ==
    IF k = 0
    THEN NumSub(Num(1), NumSub(NumDiv(NumMul(x, c), NumSub(c, Num(2))), x))
    ELSE ExpScaled(NumSub(Num(1),
                          NumSub(NumSub(lo, NumDiv(NumMul(x, c), NumSub(Num(2), c))), hi)),
                   k)

\* "x is now in primary range"
ExpPrimary(x, hi, lo, k) == ExpResult(x, ExpPoly(x, NumMul(x, x)), hi, lo, k)

\* x = hi - lo
ExpReduced(hi, lo, k) == ExpPrimary(NumSub(hi, lo), hi, lo, k)

\* hi = x - t * ln2HI[0]; lo = t * ln2LO[0], with t = k
ExpReducedBy(x, k) ==
    ExpReduced(NumSub(x, NumMul(Num(k), Ln2HI)), NumMul(Num(k), Ln2LO), k)

\* Math.exp
Exp(x) ==
    IF IsNaN(x) THEN NaN
    ELSE IF ~IsFinite(x) THEN (IF x.s = 1 THEN x ELSE Zero(1))
    ELSE IF NumLess(OThreshold, x) THEN PosInf       \* huge * huge
    ELSE IF NumLess(x, UThreshold) THEN Zero(1)      \* twom1000 * twom1000
    ELSE IF NumLeq(AboveHalfLn2, NumAbs(x))
    THEN IF NumLess(NumAbs(x), OneAndHalfLn2)
         THEN IF NumEq(x, Num(1)) THEN EulerE
              ELSE IF x.s = 1 THEN ExpReduced(NumSub(x, Ln2HI), Ln2LO, 1)
              ELSE ExpReduced(NumAdd(x, Ln2HI), NumNeg(Ln2LO), -1)
         ELSE ExpReducedBy(x, Truncated(NumAdd(NumMul(InvLn2, x),
                                               IF x.s = 1 THEN ExpHalf ELSE NumNeg(ExpHalf))))
    ELSE IF NumLess(NumAbs(x), TwoToMinus28) THEN NumAdd(Num(1), x)
    ELSE ExpPrimary(x, Num(0), Num(0), 0)

----------------------------------------------------------------------------

\* The elements of the sequence s, each computed once
Computed(s) == s \o <<>>

RECURSIVE SumTo(_, _)
\* The sum of the first n elements of s, added from the left to 0
SumTo(s, n) == IF n = 0 THEN Num(0) ELSE NumAdd(SumTo(s, n - 1), s[n])

\* array.reduce((a, b) => a + b, 0)
NumSum(s) == LET array == Computed(s) IN SumTo(array, Len(array))

----------------------------------------------------------------------------
(* Arguments *)

\* An optional argument: given, or omitted (undefined)
Some(v) == [some |-> TRUE, val |-> v]
None == [some |-> FALSE]

MaxOps == 4          \* calls made in one run of the A/B test manager

TestNames == {"t1", "ab"}

\* Hash buckets on test "t1": "cust_7" 92, "u42" 4 (its hash is negative)
CustomerIds == {"cust_7", "u42"}

Variant(n) == [name |-> n, weights |-> <<>>]

VariantsA == <<Variant("A")>>
VariantsAB == <<Variant("A"), Variant("B")>>
VariantsABC == <<Variant("A"), Variant("B"), Variant("C")>>
VariantsABCD == <<Variant("A"), Variant("B"), Variant("C"), Variant("D")>>

\* Variants whose names are array indexes, given in descending order
VariantsTwoOne == <<Variant("2"), Variant("1")>>

\* The (variants, allocation) arguments setupABTest is called with:
\* variants omitted or empty; the default equal split; an allocation that
\* sums to 90; one that sums to 0; one that sums to 100.0005 (inside the
\* 0.001 tolerance); one with an entry more than there are variants; an
\* empty one; variants whose names are array indexes; [50.001, 50], whose
\* sum less 100 is 0.0010000000000047748 in doubles; and
\* [0.2, 75.9, 15.9, 8], whose running sums are 0.2, 76.10000000000001,
\* 92.00000000000001 and 100.00000000000001
SetupArgs ==
    { <<None, None>>,
      <<Some(<<>>), None>>,
      <<Some(VariantsAB), None>>,
      <<Some(VariantsABC), Some(<<Num(30), Num(30), Num(30)>>)>>,
      <<Some(VariantsAB), Some(<<Num(0), Num(0)>>)>>,
      <<Some(VariantsAB), Some(<<Rat(1000010, 20000), Num(50)>>)>>,
      <<Some(VariantsAB), Some(<<Num(30), Num(30), Num(30)>>)>>,
      <<Some(VariantsA), Some(<<>>)>>,
      <<Some(VariantsTwoOne), None>>,
      <<Some(VariantsAB), Some(<<Rat(50001, 1000), Num(50)>>)>>,
      <<Some(VariantsABCD),
        Some(<<Rat(2, 10), Rat(759, 10), Rat(159, 10), Num(8)>>)>> }

\* The calls made on the second test: fewer, to keep the runs short
SetupArgsSecond ==
    { <<None, None>>,
      <<Some(VariantsAB), None>>,
      <<Some(VariantsABC), None>>,
      <<Some(VariantsABC), Some(<<Num(30), Num(30), Num(30)>>)>> }

SetupCalls ==
    {<<"t1", a[1], a[2]>> : a \in SetupArgs}
        \cup {<<"ab", a[1], a[2]>> : a \in SetupArgsSecond}

\* assignVariant: every customer on every test name, and once on a name
\* that abTestGroups only inherits
AssignCalls ==
    (TestNames \X CustomerIds) \cup {<<"toString", "u42">>}

\* recordConversion: a first variant, a variant only some tests have, a
\* name that results only inherits; converted false; an inherited test
\* name; a variant whose name is an array index
RecordCalls ==
    {<<t, "A", TRUE>> : t \in TestNames}
        \cup {<<"t1", "1", TRUE>>}
        \cup {<<t, "A", FALSE>> : t \in TestNames}
        \cup {<<t, "C", TRUE>> : t \in TestNames}
        \cup {<<t, "toString", TRUE>> : t \in TestNames}
        \cup {<<"toString", "A", TRUE>>}

AnalyzeCalls == TestNames \cup ProtoNames

----------------------------------------------------------------------------
(* The 32-bit rolling hash of assignVariant.  An int32 is held as its two  *)
(* unsigned 16-bit halves <<hi, lo>>, so that no intermediate value leaves *)
(* the range of the integers the checker computes with.                    *)

W16 == 65536
Half == 32768

\* u << 5, wrapped to 32 bits
Shl5(u) == LET lo == u[2] * 32
           IN  <<(u[1] * 32 + (lo \div W16)) % W16, lo % W16>>

\* u - v, wrapped to 32 bits
Sub32(u, v) == LET lo == u[2] - v[2]
                   borrow == IF lo < 0 THEN 1 ELSE 0
               IN  <<(u[1] - v[1] - borrow) % W16, lo % W16>>

\* u + c for a UTF-16 code unit c, wrapped to 32 bits
Add32(u, c) == LET lo == u[2] + c
               IN  <<(u[1] + (lo \div W16)) % W16, lo % W16>>

\* The signed value of the 32-bit pattern u (the effect of `|= 0`)
ToInt32(u) == IF u[1] >= Half THEN (u[1] - W16) * W16 + u[2]
              ELSE u[1] * W16 + u[2]

\* hashValue = (hashValue << 5) - hashValue + hashInput.charCodeAt(i); hashValue |= 0
HashStep(h, c) == Add32(Sub32(Shl5(h), h), c)

RECURSIVE HashBits(_)
HashBits(s) == IF s = <<>> THEN <<0, 0>>
               ELSE HashStep(HashBits(SubSeq(s, 1, Len(s) - 1)), s[Len(s)])

\* The hash of assignVariant's hashInput, as a signed 32-bit integer
HashValue(s) == ToInt32(HashBits(s))

\* The JavaScript remainder a % m for m > 0: it has the sign of a
JSRem(a, m) == LET r == a % m
               IN  IF a < 0 /\ r # 0 THEN r - m ELSE r

\* A slip C16 must notice: the remainder is used without Math.abs
HashPctSigned(hashValue) == JSRem(hashValue, 100)

\* Math.abs(hashValue % 100)
HashPct(hashValue) == Abs(JSRem(hashValue, 100))

----------------------------------------------------------------------------
(* The A/B test manager *)

\* constructor with no initialWeights: the default featureWeights
DefaultFeatureWeights ==
    << [key |-> "productUsageFrequency", value |-> Rat(25, 100)],
       [key |-> "supportTicketVolume",   value |-> Rat(15, 100)],
       [key |-> "featureAdoptionRate",   value |-> Rat(20, 100)],
       [key |-> "npsScore",              value |-> Rat(10, 100)],
       [key |-> "contractValue",         value |-> Rat(10, 100)],
       [key |-> "timeSinceLastLogin",    value |-> Rat(20, 100)] >>

\* Array(n).fill(v)
Fill(n, v) == [i \in 1..n |-> v]

\* "Ensure allocation sums to 100": the allocation setupABTest stores
NormalizeAllocation(useAllocation) ==
    LET sum == NumSum(useAllocation)
    IN  IF NumLess(Rat(1, 1000), NumAbs(NumSub(sum, Num(100))))
        THEN Computed([i \in 1..Len(useAllocation) |->
                          NumDiv(NumMul(useAllocation[i], Num(100)), sum)])
        ELSE useAllocation

\* The property name is an array index: the decimal digits of an integer
\* from 0 to 2^32 - 2, without a sign, a point or a leading zero
IsArrayIndex(name) ==
    LET s == Chars(name)
    IN  /\ Len(s) >= 1 /\ Len(s) <= 10
        /\ \A i \in 1..Len(s) : s[i] >= 48 /\ s[i] <= 57
        /\ Len(s) > 1 => s[1] # 48
        /\ Len(s) = 10 =>
               \E k \in 1..10 :
                   /\ \A j \in 1..(k - 1) : s[j] = Chars("4294967295")[j]
                   /\ s[k] < Chars("4294967295")[k]

\* a < b for two array indexes
IndexLess(a, b) ==
    LET s == Chars(a)
        t == Chars(b)
    IN  \/ Len(s) < Len(t)
        \/ /\ Len(s) = Len(t)
           /\ \E k \in 1..Len(s) :
                  /\ \A j \in 1..(k - 1) : s[j] = t[j]
                  /\ s[k] < t[k]

\* The order in which Object.entries and Object.keys visit the own
\* properties created in the order of the sequence entries (of distinct
\* names): array indexes in ascending order, then the rest as created
OwnPropertyOrder(entries) ==
    LET indexes == SelectSeq(entries, LAMBDA e : IsArrayIndex(e.name))
        others == SelectSeq(entries, LAMBDA e : ~IsArrayIndex(e.name))
        Rank(e) == 1 + Cardinality({j \in 1..Len(indexes) :
                                       IndexLess(indexes[j].name, e.name)})
    IN  [i \in 1..Len(indexes) |->
            indexes[CHOOSE j \in 1..Len(indexes) : Rank(indexes[j]) = i]]
        \o others

RECURSIVE FirstOccurrences(_)
\* One entry per distinct variant name, in the order of first occurrence
FirstOccurrences(variants) ==
    IF variants = <<>> THEN <<>>
    ELSE LET front == FirstOccurrences(SubSeq(variants, 1, Len(variants) - 1))
             nm == variants[Len(variants)].name
         IN  IF \E i \in 1..Len(front) : front[i].name = nm
             THEN front
             ELSE Append(front, [name |-> nm, conversions |-> 0, total |-> 0])

\* Object.fromEntries(variants.map(v => [v.name, {conversions: 0, total: 0}]))
InitialResults(variants) == OwnPropertyOrder(FirstOccurrences(variants))

\* The allocation setupABTest stores for n variants: the allocation argument,
\* or 100.0 / n for each variant when it is omitted, made to sum to 100
StoredAllocation(n, allocation) ==
    NormalizeAllocation(IF allocation.some THEN allocation.val
                        ELSE Fill(n, NumDiv(Num(100), Num(n))))

\* StoredAllocation for the arguments of SetupCalls, each computed once
StoredAllocations ==
    [given \in {<<Len(c[2].val), c[3]>> : c \in {x \in SetupCalls : x[2].some}} |->
        StoredAllocation(given[1], given[2])]

\* The ABTestConfig setupABTest builds (startDate, a timestamp, is left out)
NewTestConfig(testName, variants, allocation) ==
    [ name       |-> testName,
      variants   |-> variants,
      allocation |-> IF <<Len(variants), allocation>> \in DOMAIN StoredAllocations
                     THEN StoredAllocations[<<Len(variants), allocation>>]
                     ELSE StoredAllocation(Len(variants), allocation),
      status     |-> "active",
      results    |-> InitialResults(variants) ]

\* The own keys of a results object
ResultNames(results) == {results[i].name : i \in 1..Len(results)}

\* The position of the entry named nm in a results object
ResultIndex(results, nm) == CHOOSE i \in 1..Len(results) : results[i].name = nm

RECURSIVE WalkAllocationPerEntry(_, _, _, _)
\* A slip C17 must notice: the bucket is compared with each entry of the
\* allocation on its own, not with the running sum
WalkAllocationPerEntry(allocation, hashPct, i, cumulativePct) ==
    IF i > Len(allocation) THEN 0
    ELSE IF NumLess(Num(hashPct), allocation[i]) THEN i
         ELSE WalkAllocationPerEntry(allocation, hashPct, i + 1, cumulativePct)

RECURSIVE WalkAllocation(_, _, _, _)
\* assignVariant's loop over the allocation from index i on: the first index
\* whose running sum exceeds hashPct, or 0 when there is none
WalkAllocation(allocation, hashPct, i, cumulativePct) ==
    IF i > Len(allocation) THEN 0
    ELSE LET cum == NumAdd(cumulativePct, allocation[i])
         IN  IF NumLess(Num(hashPct), cum) THEN i
             ELSE WalkAllocation(allocation, hashPct, i + 1, cum)

\* A slip C1 must notice: the variant with the fewest assignments so far is
\* chosen instead of the customer's hash bucket
ChosenIndexByLoad(testConfig, testName, customerId) ==
    CHOOSE i \in 1..Len(testConfig.results) :
        \A j \in 1..Len(testConfig.results) :
            testConfig.results[i].total <= testConfig.results[j].total

\* The index assignVariant's loop stops at for a stored test (0: none)
ChosenIndex(testConfig, testName, customerId) ==
    WalkAllocation(testConfig.allocation,
                   HashPct(HashValue(Chars(customerId) \o Colon \o Chars(testName))),
                   1, Num(0))

\* A slip C19 must notice: a test that is already stored keeps its results
StoreKeepingResults(groups, testName, testConfig) ==
    [k \in DOMAIN groups \cup {testName} |->
        IF k = testName
        THEN IF testName \in DOMAIN groups
                  /\ ResultNames(groups[testName].results) = ResultNames(testConfig.results)
             THEN [testConfig EXCEPT !.results = groups[testName].results]
             ELSE testConfig
        ELSE groups[k]]

\* this.abTestGroups[testName] = testConfig
Store(groups, testName, testConfig) ==
    [k \in DOMAIN groups \cup {testName} |->
        IF k = testName THEN testConfig ELSE groups[k]]

\* this.abTestGroups[testName] = testConfig; return testConfig
Stored(groups, testName, testConfig) ==
    [result |-> Some(testConfig), groups |-> Store(groups, testName, testConfig)]

\* A slip C20 must notice: only a missing variants list is rejected, an
\* empty one is stored as a test without variants
SetupABTestCallAcceptingEmpty(groups, testName, variants, allocation) ==
    IF ~variants.some
    THEN [result |-> None, groups |-> groups]
    ELSE Stored(groups, testName, NewTestConfig(testName, variants.val, allocation))

\* setupABTest(testName, variants, allocation): what it returns (null: None)
\* and the abTestGroups it leaves
SetupABTestCall(groups, testName, variants, allocation) ==
    IF ~variants.some \/ Len(variants.val) = 0
    THEN \* throw new Error("No variants provided for A/B test"), caught
         [result |-> None, groups |-> groups]
    ELSE Stored(groups, testName, NewTestConfig(testName, variants.val, allocation))

\* testConfig.results[variantName].total += 1
CountAssignment(testConfig, variantName) ==
    LET k == ResultIndex(testConfig.results, variantName)
    IN  [testConfig EXCEPT !.results[k].total = @ + 1]

\* A slip C21 must notice: the test a conversion is recorded on is marked
\* completed
CountConversionCompleting(testConfig, variantName) ==
    LET k == ResultIndex(testConfig.results, variantName)
    IN  [testConfig EXCEPT !.results[k].conversions = @ + 1,
                           !.status = "completed"]

\* A slip C22 must notice: a conversion is counted as an assignment too
CountConversionAndTotal(testConfig, variantName) ==
    LET k == ResultIndex(testConfig.results, variantName)
    IN  [testConfig EXCEPT !.results[k].conversions = @ + 1,
                           !.results[k].total = @ + 1]

\* testConfig.results[variantName].conversions += 1
CountConversion(testConfig, variantName) ==
    LET k == ResultIndex(testConfig.results, variantName)
    IN  [testConfig EXCEPT !.results[k].conversions = @ + 1]

\* A slip C18 must notice: the fallback to the first variant is counted as
\* an assignment of it
AssignVariantCallCountingFallback(groups, weights, testName, customerId) ==
    IF ~HasProperty(DOMAIN groups, testName)
    THEN [threw |-> FALSE,
          variant |-> [name |-> "default", weights |-> weights],
          groups |-> groups]
    ELSE IF testName \notin DOMAIN groups
    THEN [threw |-> TRUE, groups |-> groups]
    ELSE LET testConfig == groups[testName]
             i == ChosenIndex(testConfig, testName, customerId)
             j == IF i = 0 \/ i > Len(testConfig.variants) THEN 1 ELSE i
         IN  [threw |-> FALSE, variant |-> testConfig.variants[j],
              groups |-> [groups EXCEPT ![testName] =
                  CountAssignment(testConfig, testConfig.variants[j].name)]]

\* assignVariant(testName, customerId): whether it threw into the caller, the
\* variant it returned otherwise, and the abTestGroups it leaves
AssignVariantCall(groups, weights, testName, customerId) ==
    IF ~HasProperty(DOMAIN groups, testName)
    THEN \* "not found" is thrown and caught: the synthesized default variant
         [threw |-> FALSE,
          variant |-> [name |-> "default", weights |-> weights],
          groups |-> groups]
    ELSE IF testName \notin DOMAIN groups
    THEN \* an inherited property: testConfig.allocation is undefined, reading
         \* its length throws; the catch block reads variants.length of the
         \* same object and throws again, out of assignVariant
         [threw |-> TRUE, groups |-> groups]
    ELSE LET testConfig == groups[testName]
             i == ChosenIndex(testConfig, testName, customerId)
         IN  IF i = 0
             THEN \* "Fallback to first variant if something went wrong"
                  [threw |-> FALSE, variant |-> testConfig.variants[1],
                   groups |-> groups]
             ELSE IF i > Len(testConfig.variants)
             THEN \* variants[i] is undefined: reading its name throws, and
                  \* the catch block returns the first variant
                  [threw |-> FALSE, variant |-> testConfig.variants[1],
                   groups |-> groups]
             ELSE [threw |-> FALSE, variant |-> testConfig.variants[i],
                   groups |-> [groups EXCEPT ![testName] =
                       CountAssignment(testConfig, testConfig.variants[i].name)]]

\* recordConversion(testName, variantName, converted): the boolean it returns
\* and the abTestGroups it leaves
RecordConversionCall(groups, testName, variantName, converted) ==
    IF ~HasProperty(DOMAIN groups, testName)
    THEN [result |-> FALSE, groups |-> groups]
    ELSE IF testName \notin DOMAIN groups
    THEN \* an inherited property: its results is undefined, and
         \* `variantName in undefined` throws, which is caught
         [result |-> FALSE, groups |-> groups]
    ELSE LET testConfig == groups[testName]
         IN  IF ~HasProperty(ResultNames(testConfig.results), variantName)
             THEN [result |-> FALSE, groups |-> groups]
             ELSE IF variantName \notin ResultNames(testConfig.results)
             THEN \* an inherited property of results: the increment lands
                  \* on the inherited object, no counter of a test changes
                  [result |-> TRUE, groups |-> groups]
             ELSE [result |-> TRUE,
                   groups |-> IF converted
                              THEN [groups EXCEPT ![testName] =
                                       CountConversion(testConfig, variantName)]
                              ELSE groups]

\* const z = 1.96
WilsonZ == Rat(196, 100)

\* The argument of Math.sqrt in ciLower and ciUpper:
\* (conversionRate * (1 - conversionRate) + (z * z) / (4 * total)) / total
WilsonRadicand(conversionRate, total) ==
    NumDiv(NumAdd(NumMul(conversionRate, NumSub(Num(1), conversionRate)),
                  NumDiv(NumMul(WilsonZ, WilsonZ), Num(4 * total))),
           Num(total))

\* The per-variant entry analyzeABTestResults reports.  Of the confidence
\* interval it holds the argument of the square root (ciLower and ciUpper
\* are NaN exactly when it is negative), or None where the code writes the
\* interval 0.0 .. 0.0 without computing one
VariantReport(stats) ==
    IF stats.total > 0
    THEN LET conversionRate == NumDiv(Num(stats.conversions), Num(stats.total))
         IN  [name |-> stats.name, conversions |-> stats.conversions,
              total |-> stats.total, conversionRate |-> conversionRate,
              ciRadicand |-> Some(WilsonRadicand(conversionRate, stats.total))]
    ELSE [name |-> stats.name, conversions |-> 0, total |-> 0,
          conversionRate |-> Num(0), ciRadicand |-> None]

RECURSIVE BestPerformer(_, _)
\* The loop "if (result.conversionRate > bestRate)" over the first n reports:
\* the best name so far (None: null) and its rate
BestPerformer(reports, n) ==
    IF n = 0 THEN [name |-> None, rate |-> Num(0)]
    ELSE LET prev == BestPerformer(reports, n - 1)
         IN  IF NumLess(prev.rate, reports[n].conversionRate)
             THEN [name |-> Some(reports[n].name), rate |-> reports[n].conversionRate]
             ELSE prev

\* Math.pow(observed - expected, 2) / expected
ChiSquaredTerm(observed, expected) ==
    LET d == NumSub(Num(observed), expected)
    IN  NumDiv(NumMul(d, d), expected)

\* The chi-squared statistic calculatePValue computes from two reports
ChiSquared(controlResult, testResult) ==
    LET controlNonConversions == controlResult.total - controlResult.conversions
        testNonConversions == testResult.total - testResult.conversions
        totalConversions == controlResult.conversions + testResult.conversions
        totalNonConversions == controlNonConversions + testNonConversions
        totalSamples == controlResult.total + testResult.total
        Expected(total, part) ==
            NumMul(Num(total), NumDiv(Num(part), Num(totalSamples)))
    IN  NumAdd(NumAdd(NumAdd(
            ChiSquaredTerm(controlResult.conversions,
                           Expected(controlResult.total, totalConversions)),
            ChiSquaredTerm(controlNonConversions,
                           Expected(controlResult.total, totalNonConversions))),
            ChiSquaredTerm(testResult.conversions,
                           Expected(testResult.total, totalConversions))),
            ChiSquaredTerm(testNonConversions,
                           Expected(testResult.total, totalNonConversions)))

\* The number literals of normalCDF
NormalScale == Rat(2316419, 10000000)    \* 0.2316419
NormalDensity == Rat(3989423, 10000000)  \* 0.3989423
NormalB1 == Rat(3193815, 10000000)       \* 0.3193815
NormalB2 == Rat(-3565638, 10000000)      \* -0.3565638
NormalB3 == Rat(1781478, 1000000)        \* 1.781478
NormalB4 == Rat(-1821256, 1000000)       \* -1.821256
NormalB5 == Rat(1330274, 1000000)        \* 1.330274

\* The significance level: 0.05
Alpha == Rat(5, 100)

\* p of normalCDF: d * t * (0.3193815 + t * (-0.3565638 + t * (1.781478
\* + t * (-1.821256 + t * 1.330274))))
NormalTail(d, t) ==
    NumMul(NumMul(d, t),
           NumAdd(NormalB1, NumMul(t,
           NumAdd(NormalB2, NumMul(t,
           NumAdd(NormalB3, NumMul(t,
           NumAdd(NormalB4, NumMul(t, NormalB5)))))))))

\* return x > 0 ? 1 - p : p
NormalSide(x, p) == IF NumLess(Num(0), x) THEN NumSub(Num(1), p) ELSE p

\* normalCDF(x)
NormalCDF(x) ==
    NormalSide(x,
        NormalTail(NumMul(NormalDensity,
                          Exp(NumDiv(NumMul(NumNeg(x), x), Num(2)))),
                   NumDiv(Num(1), NumAdd(Num(1),
                                         NumMul(NormalScale, NumAbs(x))))))

\* chiSquaredCDF(x, 1)
ChiSquaredCDF(x) ==
    IF NumLeq(x, Num(0)) THEN Num(0)
    ELSE NumSub(NumMul(Num(2), NormalCDF(NumSqrt(x))), Num(1))

\* What calculatePValue returns for the statistic it computed:
\* 1 - this.chiSquaredCDF(chiSquared, 1)
PValue(chiSquared) == NumSub(Num(1), ChiSquaredCDF(chiSquared))

\* pValue < 0.05
BelowAlpha(pValue) == NumLess(pValue, Alpha)

\* pValue < 0.05 for the p-value of a statistic
PValueBelowAlpha(chiSquared) == BelowAlpha(PValue(chiSquared))

\* The analysis of more than one variant, from the statistic
\* calculatePValue computes for the control and the best performer
SignificanceAnalysis(reports, best, chiSquared, pValue, significant) ==
    [error |-> FALSE, results |-> reports,
     control |-> reports[1].name, bestPerformer |-> best,
     pValue |-> Some([chiSquared |-> chiSquared, value |-> pValue]),
     significant |-> Some(significant),
     recommendation |-> IF significant THEN best ELSE Some(reports[1].name)]

\* const significant = pValue < 0.05
SignificanceOf(reports, best, chiSquared, pValue) ==
    SignificanceAnalysis(reports, best, chiSquared, pValue, BelowAlpha(pValue))

\* const pValue = this.calculatePValue(controlResult, bestResult)
Significance(reports, best, chiSquared) ==
    SignificanceOf(reports, best, chiSquared, PValue(chiSquared))

\* What analyzeABTestResults returns once bestPerformer is found
AnalysisOfBest(reports, best) ==
    IF Len(reports) > 1 /\ ~best.some
    THEN \* results[null] is undefined: calculatePValue reads its
         \* conversions and throws, which is caught
         [error |-> TRUE]
    ELSE IF Len(reports) > 1
    THEN Significance(reports, best,
                      ChiSquared(reports[1], reports[ResultIndex(reports, best.val)]))
    ELSE [error |-> FALSE, results |-> reports,
          control |-> reports[1].name, bestPerformer |-> best,
          pValue |-> None, significant |-> None,
          recommendation |-> best]

\* What analyzeABTestResults returns from the per-variant reports
Analysis(reports) == AnalysisOfBest(reports, BestPerformer(reports, Len(reports)).name)

\* analyzeABTestResults(testName): that it returned {error}, or the reports
\* and the analysis.  pValue is None where the code computes none; else it
\* holds the chi-squared statistic and the p-value computed from it
AnalyzeCall(groups, testName) ==
    IF ~HasProperty(DOMAIN groups, testName) \/ testName \notin DOMAIN groups
    THEN [error |-> TRUE]
    ELSE LET stored == groups[testName].results
         IN  Analysis(Computed([i \in 1..Len(stored) |-> VariantReport(stored[i])]))

----------------------------------------------------------------------------
(* calculateHealthScore *)

\* A slip C8 must notice: the marker "supportTicket" also matches the metric
\* supportTicketVolume
InvertedFeaturesLoose == <<"churnProbability", "daysSinceLastLogin", "supportTicket">>

\* const invertedFeatures = [...]
InvertedFeatures == <<"churnProbability", "daysSinceLastLogin", "supportTickets">>

\* invertedFeatures.some(inv => feature.toLowerCase().includes(inv.toLowerCase()))
IsInverted(feature) ==
    \E k \in 1..Len(InvertedFeatures) :
        Includes(ToLowerCase(Chars(feature)), ToLowerCase(Chars(InvertedFeatures[k])))

\* customerData[feature] as a number: an inherited property is a function,
\* and arithmetic on it gives NaN
PropertyValue(customerData, feature) ==
    IF feature \in DOMAIN customerData THEN customerData[feature] ELSE NaN

\* "1.0 - value" for an inverted feature, the value itself otherwise
NormalizedValue(feature, value) ==
    IF IsInverted(feature) THEN NumSub(Num(1), value) ELSE value

RECURSIVE Accumulate(_, _, _)
\* score and totalWeight after the loop has visited the first n entries of
\* useWeights
Accumulate(customerData, useWeights, n) ==
    IF n = 0 THEN [score |-> Num(0), totalWeight |-> Num(0)]
    ELSE LET acc == Accumulate(customerData, useWeights, n - 1)
             feature == useWeights[n].key
             weight == useWeights[n].value
         IN  IF HasProperty(DOMAIN customerData, feature)
             THEN [score |-> NumAdd(acc.score,
                                NumMul(NormalizedValue(feature,
                                           PropertyValue(customerData, feature)),
                                       weight)),
                   totalWeight |-> NumAdd(acc.totalWeight, weight)]
             ELSE acc

\* finalScore = totalWeight > 0 ? 100.0 * (score / totalWeight) : 50.0
FinalScore(acc) ==
    IF NumLess(Num(0), acc.totalWeight)
    THEN NumMul(Num(100), NumDiv(acc.score, acc.totalWeight))
    ELSE Num(50)

\* calculateHealthScore(customerData, weights) of an optimizer whose
\* featureWeights are defaults; customerData and weights may be undefined
CalculateHealthScore(customerData, weights, defaults) ==
    LET useWeights == IF weights.some THEN weights.val ELSE defaults
    IN  IF ~customerData.some
        THEN IF Len(useWeights) > 0
             THEN \* `feature in undefined` throws in the first iteration:
                  \* "Return default score on error"
                  Num(50)
             ELSE FinalScore([score |-> Num(0), totalWeight |-> Num(0)])
        ELSE FinalScore(Accumulate(customerData.val, useWeights, Len(useWeights)))

----------------------------------------------------------------------------
(* The weight normalizer: the correlation-to-weight step shared by         *)
(* calculateOptimizedWeights, calculateStatisticalWeights and              *)
(* generateOptimizedWeights                                                *)

\* The six metrics, in the insertion order of the correlations object
Metrics == <<"productUsageFrequency", "supportTicketVolume", "featureAdoptionRate",
             "npsScore", "contractValue", "timeSinceLastLogin">>

\* "Normalize correlations to sum to 1": value / totalCorrelation
NormalizedCorrelations(correlations) ==
    LET totalCorrelation == NumSum(correlations)
    IN  Computed([i \in 1..Len(correlations) |->
                     NumDiv(correlations[i], totalCorrelation)])

\* "Convert to weights that sum to 100": Math.round(normalized * 100)
RoundedWeights(correlations) ==
    LET normalized == NormalizedCorrelations(correlations)
    IN  Computed([i \in 1..Len(normalized) |->
                     NumRound(NumMul(normalized[i], Num(100)))])

\* A slip C15 must notice: among equal highest weights the last one is taken
HighestKeyLast(weights) ==
    CHOOSE i \in 1..Len(weights) :
        /\ \A j \in 1..Len(weights) : ~NumLess(weights[i], weights[j])
        /\ \A k \in (i + 1)..Len(weights) : NumLess(weights[k], weights[i])

\* Object.entries(weights).sort((a, b) => b[1] - a[1])[0][0]: the sort is
\* stable, so the first of the entries no other entry exceeds
HighestKey(weights) ==
    CHOOSE i \in 1..Len(weights) :
        /\ \A j \in 1..Len(weights) : ~NumLess(weights[i], weights[j])
        /\ \A k \in 1..(i - 1) : \E j \in 1..Len(weights) : NumLess(weights[k], weights[j])

\* A slip C7 must notice: the rounding residual is never added
AdjustedWeightsNoResidual(weights) == weights

\* "Ensure weights sum to 100 (adjust for rounding errors)"
AdjustedWeights(weights) ==
    LET weightSum == NumSum(weights)
    IN  IF ~NumEq(weightSum, Num(100))
        THEN LET diff == NumSub(Num(100), weightSum)
                 highestKey == HighestKey(weights)
             IN  [weights EXCEPT ![highestKey] = NumAdd(@, diff)]
        ELSE weights

\* The weights object returned for the raw per-metric scores
NormalizeWeights100(correlations) ==
    LET weights == AdjustedWeights(RoundedWeights(correlations))
    IN  [i \in 1..Len(Metrics) |-> [key |-> Metrics[i], value |-> weights[i]]]

----------------------------------------------------------------------------
(* The correlation calculateOptimizedWeights and calculateStatisticalWeights *)
(* compute in line, metric by metric, from raw moments.                      *)

\* The value of a metric the correlation is computed on: "lower is better"
\* metrics are subtracted from 100, the NPS is moved to the 0-100 scale
MetricValue(metric, customer) ==
    IF metric = "supportTicketVolume" \/ metric = "timeSinceLastLogin"
    THEN NumSub(Num(100), customer.metrics[metric])
    ELSE IF metric = "npsScore"
    THEN NumDiv(NumAdd(customer.metrics["npsScore"], Num(100)), Num(2))
    ELSE customer.metrics[metric]

\* const values = data.map(customer => ({value, churn}))
MetricValues(metric, data) ==
    Computed([i \in 1..Len(data) |-> [value |-> MetricValue(metric, data[i]),
                                      churn |-> data[i].churnProbability]])

\* n * sumXX - sumX * sumX of a column of numbers
MomentVariance(column) ==
    LET n == Num(Len(column))
        sum == NumSum(column)
        sumSquares == NumSum(Computed([i \in 1..Len(column) |->
                                          NumMul(column[i], column[i])]))
    IN  NumSub(NumMul(n, sumSquares), NumMul(sum, sum))

\* The argument of Math.sqrt in the denominator
CorrelationRadicand(values) ==
    NumMul(MomentVariance([i \in 1..Len(values) |-> values[i].value]),
           MomentVariance([i \in 1..Len(values) |-> values[i].churn]))

\* n * sumXY - sumX * sumY
CorrelationNumerator(values) ==
    LET n == Num(Len(values))
        sumX == NumSum([i \in 1..Len(values) |-> values[i].value])
        sumY == NumSum([i \in 1..Len(values) |-> values[i].churn])
        sumXY == NumSum(Computed([i \in 1..Len(values) |->
                                     NumMul(values[i].value, values[i].churn)]))
    IN  NumSub(NumMul(n, sumXY), NumMul(sumX, sumY))

\* correlations[metric] = Math.abs(numerator / denominator)
InlineCorrelation(values) ==
    NumAbs(NumDiv(CorrelationNumerator(values),
                  NumSqrt(CorrelationRadicand(values))))

\* The correlations object after the forEach over its keys
MetricCorrelations(data) ==
    Computed([i \in 1..Len(Metrics) |->
                 InlineCorrelation(MetricValues(Metrics[i], data))])

\* calculateOptimizedWeights(data): the weights and correlations it returns
CalculateOptimizedWeights(data) ==
    LET correlations == MetricCorrelations(data)
    IN  [weights |-> NormalizeWeights100(correlations),
         correlations |-> NormalizedCorrelations(correlations)]

\* const completeData = data.filter(record => !record.hasIncompleteData)
CompleteData(data) == SelectSeq(data, LAMBDA record : ~record.hasIncompleteData)

\* calculateStatisticalWeights(data): the weights and importance it returns
CalculateStatisticalWeights(data) ==
    LET correlations == MetricCorrelations(CompleteData(data))
    IN  [weights |-> NormalizeWeights100(correlations),
         importance |-> NormalizedCorrelations(correlations)]

----------------------------------------------------------------------------
(* calculateCorrelation *)

RECURSIVE Residuals(_, _, _, _, _)
\* covariance, xVariance and yVariance after the loop's first n rounds
Residuals(x, y, xMean, yMean, n) ==
    IF n = 0 THEN [covariance |-> Num(0), xVariance |-> Num(0), yVariance |-> Num(0)]
    ELSE LET acc == Residuals(x, y, xMean, yMean, n - 1)
             xDiff == NumSub(x[n], xMean)
             yDiff == NumSub(y[n], yMean)
         IN  [covariance |-> NumAdd(acc.covariance, NumMul(xDiff, yDiff)),
              xVariance  |-> NumAdd(acc.xVariance, NumMul(xDiff, xDiff)),
              yVariance  |-> NumAdd(acc.yVariance, NumMul(yDiff, yDiff))]

\* denominator === 0 ? 0 : covariance / denominator
GuardedRatio(covariance, denominator) ==
    IF NumEq(denominator, Num(0)) THEN Num(0) ELSE NumDiv(covariance, denominator)

\* return denominator === 0 ? 0 : covariance / denominator, with
\* denominator = Math.sqrt(xVariance * yVariance)
CorrelationReturn(covariance, xVariance, yVariance) ==
    GuardedRatio(covariance, NumSqrt(NumMul(xVariance, yVariance)))

\* The value returned from the sums the loop leaves
CorrelationOf(acc) == CorrelationReturn(acc.covariance, acc.xVariance, acc.yVariance)

\* calculateCorrelation(x, y), for arrays of the same length n >= 1
CalculateCorrelation(x, y) ==
    LET n == Len(x)
        xMean == NumDiv(NumSum(x), Num(n))
        yMean == NumDiv(NumSum(y), Num(n))
    IN  CorrelationOf(Residuals(x, y, xMean, yMean, n))

----------------------------------------------------------------------------
(* The fractional feature weights: the constructor, normalizeWeights and   *)
(* optimizeWeightsBayesian.  A training row is the sequence of its own     *)
(* [key, value] entries; the numbers Math.random returns are an argument.  *)

\* Object.values(weights)
ObjectValues(weights) == [i \in 1..Len(weights) |-> weights[i].value]

\* normalizeWeights(weights): "Helper method to normalize weights to sum to 1"
NormalizeWeights(weights) ==
    LET totalWeight == NumSum(ObjectValues(weights))
    IN  IF NumEq(totalWeight, Num(0))
        THEN weights   \* "Avoid division by zero"
        ELSE Computed([i \in 1..Len(weights) |->
                 [key |-> weights[i].key,
                  value |-> NumDiv(weights[i].value, totalWeight)]])

\* constructor(initialWeights?): the featureWeights of the new optimizer
Constructor(initialWeights) ==
    IF initialWeights.some THEN NormalizeWeights(initialWeights.val)
    ELSE DefaultFeatureWeights

\* Object.keys(row)
ObjectKeys(row) == [i \in 1..Len(row) |-> row[i].key]

\* row[key]: the value of the own property, NaN for a missing one (undefined)
Lookup(row, key) ==
    IF \E i \in 1..Len(row) : row[i].key = key
    THEN row[CHOOSE i \in 1..Len(row) : row[i].key = key].value
    ELSE NaN

\* const customerData = { ...customer }; delete customerData[targetCol]
WithoutTarget(customer, targetCol) ==
    [k \in {customer[i].key : i \in 1..Len(customer)} \ {targetCol} |->
        Lookup(customer, k)]

\* evaluateWeights(weights, trainData, targetCol): minus the correlation of
\* the customers' health scores / 100 with their target values
EvaluateWeights(weights, trainData, targetCol, defaults) ==
    LET scores == Computed([i \in 1..Len(trainData) |->
                      NumDiv(CalculateHealthScore(
                                 Some(WithoutTarget(trainData[i], targetCol)),
                                 Some(weights), defaults),
                             Num(100))])
        targetValues == [i \in 1..Len(trainData) |-> Lookup(trainData[i], targetCol)]
    IN  NumNeg(CalculateCorrelation(scores, targetValues))

\* if (score > bestScore) { bestScore = score; bestWeights = normalizedWeights }
KeepBest(prev, normalizedWeights, score) ==
    IF NumLess(prev.bestScore, score)
    THEN [bestScore |-> score, bestWeights |-> normalizedWeights]
    ELSE prev

\* One trial on the weights it drew, after normalizeWeights
Trial(prev, normalizedWeights, trainData, targetCol, defaults) ==
    KeepBest(prev, normalizedWeights,
             EvaluateWeights(normalizedWeights, trainData, targetCol, defaults))

RECURSIVE Trials(_, _, _, _, _, _)
\* bestScore and bestWeights after the first n trials; random is the
\* sequence of numbers the calls of Math.random() return
Trials(features, trainData, targetCol, random, defaults, n) ==
    IF n = 0 THEN [bestScore |-> NegInf, bestWeights |-> <<>>]
    ELSE LET trialWeights == [k \in 1..Len(features) |->
                                 [key |-> features[k],
                                  value |-> random[(n - 1) * Len(features) + k]]]
         IN  Trial(Trials(features, trainData, targetCol, random, defaults, n - 1),
                   NormalizeWeights(trialWeights), trainData, targetCol, defaults)

\* this.featureWeights = bestWeights; return bestWeights
Adopted(bestWeights) == [result |-> bestWeights, featureWeights |-> bestWeights]

\* optimizeWeightsBayesian(trainData, targetCol, nTrials): the weights it
\* returns and the featureWeights it leaves
OptimizeWeightsBayesianCall(weights, trainData, targetCol, nTrials, random) ==
    IF Len(trainData) = 0
    THEN \* Object.keys(undefined) throws, which is caught
         [result |-> weights, featureWeights |-> weights]
    ELSE LET features == SelectSeq(ObjectKeys(trainData[1]),
                                   LAMBDA col : col # targetCol)
         IN  Adopted(Trials(features, trainData, targetCol, random, weights,
                            nTrials).bestWeights)

----------------------------------------------------------------------------
(* The two local scoring paths: RealTimeScorer.scoreCustomer and the       *)
(* fallback MLBackendAPI.scoreCustomer takes when the backend call fails.  *)
(* Of what they return, the score, the prediction and the threshold are   *)
(* held.                                                                   *)

\* private scoringThreshold: number = 0.5, and initialize's default
ScoringThreshold == Rat(1, 2)

\* RealTimeScorer.scoreCustomer(customerData), for a customer object and an
\* explainer that does not throw
RealTimeScoreCustomer(customerData, weights, threshold) ==
    LET score == CalculateHealthScore(Some(customerData), None, weights)
        normalizedScore == NumDiv(score, Num(100))
    IN  [score |-> score,
         prediction |-> IF NumLeq(threshold, normalizedScore) THEN 1 ELSE 0,
         threshold |-> threshold]

\* The object the catch block of MLBackendAPI.scoreCustomer returns when an
\* optimizer is there
FallbackScoreCustomer(customerData, weights) ==
    LET score == CalculateHealthScore(Some(customerData), None, weights)
    IN  [score |-> score,
         prediction |-> IF NumLeq(Num(50), score) THEN 0 ELSE 1]

----------------------------------------------------------------------------
(* The A/B test manager as a state machine: any caller, any order of calls *)

NoCall == [op |-> "none"]
NoHistory == [k \in {} |-> <<>>]

\* The history kept of assignVariant's answers: for each <<test, customer>>
\* the variant first returned since that test was last set up, and the
\* number of calls made since
Remember(hist, testName, customerId, variant) ==
    LET key == <<testName, customerId>>
    IN  IF key \in DOMAIN hist
        THEN [hist EXCEPT ![key].calls = @ + 1]
        ELSE [k \in DOMAIN hist \cup {key} |->
                 IF k = key THEN [variant |-> variant, calls |-> 1] ELSE hist[k]]

Forget(hist, testName) ==
    [k \in {j \in DOMAIN hist : j[1] # testName} |-> hist[k]]

\* History kept of a setupABTest call: whether a test of that name was
\* stored when it was made, and whether that test had counted anything
Replaced(groups, testName) ==
    IF testName \in DOMAIN groups
    THEN [existed |-> TRUE,
          counted |-> \E i \in 1..Len(groups[testName].results) :
                          \/ groups[testName].results[i].total > 0
                          \/ groups[testName].results[i].conversions > 0]
    ELSE [existed |-> FALSE, counted |-> FALSE]

\* History kept of an analyzeABTestResults call: whether the call before it
\* was an analysis of the same test
Repeated(last, testName) ==
    last.op = "analyzeABTestResults" /\ last.testName = testName

SetupABTest(testName, variants, allocation) ==
    /\ ops < MaxOps
    /\ \E call \in {SetupABTestCall(abTestGroups, testName, variants, allocation)} :
           /\ abTestGroups' = call.groups
           /\ ret' = [op |-> "setupABTest", testName |-> testName,
                      result |-> call.result,
                      replaced |-> Replaced(abTestGroups, testName)]
           /\ assigned' = IF call.result.some THEN Forget(assigned, testName)
                          ELSE assigned
    /\ ops' = ops + 1
    /\ UNCHANGED <<featureWeights, hsVars, normVars, corrVars, hashVars, wVars, monoVars, predVars>>

AssignVariant(testName, customerId) ==
    /\ ops < MaxOps
    /\ \E call \in {AssignVariantCall(abTestGroups, featureWeights, testName, customerId)} :
           /\ abTestGroups' = call.groups
           /\ ret' = IF call.threw
                     THEN [op |-> "assignVariant", testName |-> testName,
                           customerId |-> customerId, threw |-> TRUE]
                     ELSE [op |-> "assignVariant", testName |-> testName,
                           customerId |-> customerId, threw |-> FALSE,
                           variant |-> call.variant]
           /\ assigned' = IF testName \in DOMAIN abTestGroups
                          THEN Remember(assigned, testName, customerId, call.variant)
                          ELSE assigned
    /\ ops' = ops + 1
    /\ UNCHANGED <<featureWeights, hsVars, normVars, corrVars, hashVars, wVars, monoVars, predVars>>

RecordConversion(testName, variantName, converted) ==
    /\ ops < MaxOps
    /\ \E call \in {RecordConversionCall(abTestGroups, testName, variantName, converted)} :
           /\ abTestGroups' = call.groups
           /\ ret' = [op |-> "recordConversion", testName |-> testName,
                      variantName |-> variantName, converted |-> converted,
                      result |-> call.result]
    /\ ops' = ops + 1
    /\ UNCHANGED <<featureWeights, assigned, hsVars, normVars, corrVars, hashVars, wVars, monoVars, predVars>>

\* A slip C28 must notice: analysing a test resets its counters
AnalyzeABTestResultsResetting(testName) ==
    /\ ops < MaxOps
    /\ ret' = [op |-> "analyzeABTestResults", testName |-> testName,
               result |-> AnalyzeCall(abTestGroups, testName),
               repeated |-> Repeated(ret, testName)]
    /\ abTestGroups' =
          IF testName \in DOMAIN abTestGroups
          THEN [abTestGroups EXCEPT ![testName].results =
                   [i \in 1..Len(@) |-> [@[i] EXCEPT !.conversions = 0, !.total = 0]]]
          ELSE abTestGroups
    /\ ops' = ops + 1
    /\ UNCHANGED <<featureWeights, assigned,
                   hsVars, normVars, corrVars, hashVars, wVars, monoVars, predVars>>

AnalyzeABTestResults(testName) ==
    /\ ops < MaxOps
    /\ ret' = [op |-> "analyzeABTestResults", testName |-> testName,
               result |-> AnalyzeCall(abTestGroups, testName),
               repeated |-> Repeated(ret, testName)]
    /\ ops' = ops + 1
    /\ UNCHANGED <<featureWeights, abTestGroups, assigned,
                   hsVars, normVars, corrVars, hashVars, wVars, monoVars, predVars>>

\* The idle values of the variables a specification does not use
IdleScore == /\ hsWeights = None /\ hsRecord = None /\ hsResult = None
IdleNormalizer == /\ rawScores = <<>> /\ normWeights = <<>> /\ roundTrip = None
IdleCorrelation == /\ corrX = <<>> /\ corrY = <<>> /\ corrResult = None
IdleHash == /\ hashCustomer = <<>> /\ hashTest = "" /\ hashResult = None
IdleWeights == /\ dataset = <<>> /\ weightsResult = None
IdleMono == /\ monoCustomer = None /\ monoRaised = None /\ monoScores = None
IdlePredict == /\ predCustomer = None /\ realTimeResult = None /\ fallbackResult = None
               /\ scoringThreshold = ScoringThreshold
IdleData == IdleWeights /\ IdleMono /\ IdlePredict
IdleManager == /\ featureWeights = DefaultFeatureWeights
               /\ abTestGroups = [k \in {} |-> <<>>]
               /\ ret = NoCall /\ assigned = NoHistory /\ ops = 0

Init == /\ IdleManager /\ IdleScore /\ IdleNormalizer /\ IdleCorrelation /\ IdleHash
        /\ IdleData

Next ==
    \/ \E c \in SetupCalls : SetupABTest(c[1], c[2], c[3])
    \/ \E c \in AssignCalls : AssignVariant(c[1], c[2])
    \/ \E c \in RecordCalls : RecordConversion(c[1], c[2], c[3])
    \/ \E t \in AnalyzeCalls : AnalyzeABTestResults(t)

Spec == Init /\ [][Next]_vars

----------------------------------------------------------------------------
(* calculateHealthScore on bounded inputs *)

MaxWeight == 2       \* weights are the integers -1 .. MaxWeight
ValueDen == 1        \* feature values are the multiples of 1/ValueDen in [0, 1], and 2

\* The features of a weight map, in insertion order: two plain ones, one
\* whose name contains an inverted marker, one a record only inherits
ScoreFeatures == <<"usage", "npsScore", "SupportTicketsOpen", "toString">>

\* The features a customer record may own
RecordFeatures == {"usage", "npsScore", "SupportTicketsOpen"}

WeightValues == {Num(w) : w \in (-1)..MaxWeight}
FeatureValues == {Rat(k, ValueDen) : k \in 0..ValueDen} \cup {Num(2)}

\* The weight map that gives feature ScoreFeatures[i] the weight pick[i]
\* (None: the feature is left out)
WeightMapOf(pick) ==
    LET all == [i \in 1..Len(ScoreFeatures) |->
                   [key |-> ScoreFeatures[i], pick |-> pick[i]]]
        kept == SelectSeq(all, LAMBDA e : e.pick.some)
    IN  [i \in 1..Len(kept) |-> [key |-> kept[i].key, value |-> kept[i].pick.val]]

\* The inherited feature is given the weight 1 or left out
WeightPicks ==
    {pick \in [1..Len(ScoreFeatures) -> {None} \cup {Some(w) : w \in WeightValues}] :
        pick[4] \in {None, Some(Num(1))}}

\* Weights that are not integers, for the three features a record may own:
\* 0.1, 0.2 and -0.3 add up to 5.551115123125783e-17; 0.3, -0.1 and -0.2 to
\* -2.7755575615628914e-17; 0.7, 0.1 and 0.2 to 0.9999999999999999
FractionalPicks ==
    { <<Some(Rat(1, 10)), Some(Rat(2, 10)), Some(Rat(-3, 10)), None>>,
      <<Some(Rat(3, 10)), Some(Rat(-1, 10)), Some(Rat(-2, 10)), None>>,
      <<Some(Rat(7, 10)), Some(Rat(1, 10)), Some(Rat(2, 10)), None>> }

\* The weights arguments: omitted, or one of the weight maps
WeightArgs ==
    {None} \cup {Some(WeightMapOf(pick)) : pick \in WeightPicks \cup FractionalPicks}

\* The customerData arguments: undefined, or a record owning some features
RecordArgs ==
    {None} \cup
    UNION {{Some(r) : r \in [own -> FeatureValues]} : own \in SUBSET RecordFeatures}

InitScore ==
    /\ hsWeights \in WeightArgs
    /\ hsRecord \in RecordArgs
    /\ hsResult = None
    /\ IdleManager /\ IdleNormalizer /\ IdleCorrelation /\ IdleHash /\ IdleData

HealthScoreStep ==
    /\ ~hsResult.some
    /\ hsResult' = Some(CalculateHealthScore(hsRecord, hsWeights, featureWeights))
    /\ UNCHANGED <<hsWeights, hsRecord, abVars, normVars, corrVars, hashVars, wVars, monoVars, predVars>>

NextScore == HealthScoreStep

SpecScore == InitScore /\ [][NextScore]_vars

----------------------------------------------------------------------------
(* The weight normalizer on bounded inputs, and its weights fed back into  *)
(* calculateHealthScore                                                    *)

MaxScore == 2        \* raw scores are the integers 0 .. MaxScore, and fractions

\* Raw scores that are fractions: 0.029 / 0.2 * 100 is 14.499999999999998
\* and 0.007 / 0.2 * 100 is 3.5000000000000004 in doubles; thirds and
\* sevenths of the total
FractionalScoreArgs ==
    { <<Rat(29, 1000), Rat(171, 1000), Num(0), Num(0), Num(0), Num(0)>>,
      <<Rat(7, 1000), Rat(193, 1000), Num(0), Num(0), Num(0), Num(0)>>,
      <<Rat(1, 10), Rat(1, 10), Rat(1, 10), Num(0), Num(0), Num(0)>>,
      <<Rat(3, 10), Rat(1, 10), Rat(1, 10), Rat(1, 10), Rat(1, 10), Num(0)>> }

\* The raw scores: Math.abs of a correlation, or a min-max normalized
\* importance; never negative
RawScoreArgs ==
    [1..Len(Metrics) -> {Num(k) : k \in 0..MaxScore}] \cup FractionalScoreArgs

\* A record in which every metric equals 1
AllOnesRecord == [m \in {Metrics[i] : i \in 1..Len(Metrics)} |-> Num(1)]

InitNorm ==
    /\ rawScores \in RawScoreArgs
    /\ normWeights = <<>>
    /\ roundTrip = None
    /\ IdleManager /\ IdleScore /\ IdleCorrelation /\ IdleHash /\ IdleData

NormalizeStep ==
    /\ normWeights = <<>>
    /\ normWeights' = NormalizeWeights100(rawScores)
    /\ UNCHANGED <<rawScores, roundTrip, abVars, hsVars, corrVars, hashVars, wVars, monoVars, predVars>>

RoundTripStep ==
    /\ normWeights # <<>>
    /\ ~roundTrip.some
    /\ roundTrip' = Some(CalculateHealthScore(Some(AllOnesRecord), Some(normWeights),
                                              featureWeights))
    /\ UNCHANGED <<rawScores, normWeights, abVars, hsVars, corrVars, hashVars, wVars, monoVars, predVars>>

NextNorm == NormalizeStep \/ RoundTripStep

SpecNorm == InitNorm /\ [][NextNorm]_vars

----------------------------------------------------------------------------
(* calculateCorrelation on bounded inputs *)

MaxLen == 3          \* arrays have 1 .. MaxLen elements
MaxVal == 1          \* elements are the tenths 0 .. MaxVal/10, and 1/2

ArrayArgs(n) == [1..n -> {Rat(k, 10) : k \in 0..MaxVal} \cup {Rat(1, 2)}]

InitCorr ==
    /\ \E n \in 1..MaxLen : corrX \in ArrayArgs(n) /\ corrY \in ArrayArgs(n)
    /\ corrResult = None
    /\ IdleManager /\ IdleScore /\ IdleNormalizer /\ IdleHash /\ IdleData

\* The three calls the claims compare: (x, y), (y, x) and (x, x)
CorrelationStep ==
    /\ ~corrResult.some
    /\ corrResult' = Some([xy |-> CalculateCorrelation(corrX, corrY),
                           yx |-> CalculateCorrelation(corrY, corrX),
                           xx |-> CalculateCorrelation(corrX, corrX)])
    /\ UNCHANGED <<corrX, corrY, abVars, hsVars, normVars, hashVars, wVars, monoVars, predVars>>

NextCorr == CorrelationStep

SpecCorr == InitCorr /\ [][NextCorr]_vars

----------------------------------------------------------------------------
(* The feature weights of an optimizer: constructed with or without        *)
(* initial weights, then optimized any number of times                     *)

MaxOptCalls == 2     \* optimizeWeightsBayesian calls made in one run
MaxTrials == 2       \* nTrials is 0 .. MaxTrials

Weights2(a, b) == << [key |-> "usage", value |-> a], [key |-> "npsScore", value |-> b] >>

\* The initialWeights the constructor is given: none; an empty map; weights
\* that sum to 4, to 0 (all zero, or cancelling) and to 1
InitialWeightArgs ==
    { None, Some(<<>>),
      Some(Weights2(Num(1), Num(3))),
      Some(Weights2(Num(0), Num(0))),
      Some(Weights2(Num(1), Num(-1))),
      Some(Weights2(Rat(1, 4), Rat(3, 4))) }

Row(usage, nps, churned) ==
    << [key |-> "usage", value |-> Num(usage)],
       [key |-> "npsScore", value |-> Num(nps)],
       [key |-> "churned", value |-> Num(churned)] >>

\* The training sets: empty; one customer; three customers; customers with
\* the column "churned" only
TrainDataArgs ==
    { <<>>,
      << Row(1, 0, 0) >>,
      << Row(1, 0, 0), Row(0, 1, 1), Row(1, 1, 0) >>,
      << <<[key |-> "churned", value |-> Num(1)]>>,
         <<[key |-> "churned", value |-> Num(0)]>> >> }

TargetCols == {"churned", "usage"}

\* The numbers successive calls of Math.random() return, all in [0, 1):
\* all zero; the first trial better than the later ones; the later trials
\* better; a zero weight in every trial
RandomArgs ==
    { [j \in 1..8 |-> Num(0)],
      << Rat(3, 4), Rat(1, 4), Rat(1, 4), Rat(3, 4), Rat(1, 2), Rat(1, 2), Rat(1, 4), Rat(1, 2) >>,
      << Rat(1, 4), Rat(3, 4), Rat(1, 2), Rat(1, 2), Rat(3, 4), Rat(1, 4), Rat(1, 2), Num(0) >>,
      << Num(0), Rat(1, 2), Rat(1, 2), Num(0), Num(0), Rat(1, 4), Rat(3, 4), Num(0) >> }

InitOpt ==
    /\ \E initialWeights \in InitialWeightArgs :
          featureWeights = Constructor(initialWeights)
    /\ abTestGroups = [k \in {} |-> <<>>]
    /\ ret = NoCall /\ assigned = NoHistory /\ ops = 0
    /\ IdleScore /\ IdleNormalizer /\ IdleCorrelation /\ IdleHash /\ IdleData

OptimizeWeightsBayesian(trainData, targetCol, nTrials, random) ==
    /\ ops < MaxOptCalls
    /\ \E call \in {OptimizeWeightsBayesianCall(featureWeights, trainData, targetCol,
                                                nTrials, random)} :
           /\ featureWeights' = call.featureWeights
           /\ ret' = [op |-> "optimizeWeightsBayesian", trainData |-> trainData,
                      nTrials |-> nTrials, result |-> call.result]
    /\ ops' = ops + 1
    /\ UNCHANGED <<abTestGroups, assigned, hsVars, normVars, corrVars, hashVars, wVars, monoVars, predVars>>

NextOpt ==
    \E trainData \in TrainDataArgs, targetCol \in TargetCols, nTrials \in 0..MaxTrials :
        \E random \in RandomArgs :
            OptimizeWeightsBayesian(trainData, targetCol, nTrials, random)

SpecOpt == InitOpt /\ [][NextOpt]_vars

----------------------------------------------------------------------------
(* assignVariant's hash on bounded inputs *)

MaxIdLen == 3        \* customer ids have 1 .. MaxIdLen code units

\* The code units of customer ids: "u", "4", "_" and the highest code unit
HashAlphabet == {117, 52, 95, 65535}

\* The customer ids: every string over the alphabet, the ids of the A/B
\* runs, and an id whose hash with test "t1" is -2^31
HashCustomerArgs ==
    UNION {[1..n -> HashAlphabet] : n \in 1..MaxIdLen}
        \cup {Chars(c) : c \in CustomerIds} \cup {Chars("gxkczl2")}

InitHash ==
    /\ hashCustomer \in HashCustomerArgs
    /\ hashTest \in TestNames
    /\ hashResult = None
    /\ IdleManager /\ IdleScore /\ IdleNormalizer /\ IdleCorrelation /\ IdleData

\* Lines 176-184 of assignVariant: hashInput, hashValue, hashPct
HashBucketStep ==
    /\ ~hashResult.some
    /\ LET hashInput == hashCustomer \o Colon \o Chars(hashTest)
           hashValue == HashValue(hashInput)
       IN  hashResult' = Some([hashValue |-> hashValue, hashPct |-> HashPct(hashValue)])
    /\ UNCHANGED <<hashCustomer, hashTest, abVars, hsVars, normVars, corrVars,
                   wVars, monoVars, predVars>>

NextHash == HashBucketStep

SpecHash == InitHash /\ [][NextHash]_vars

----------------------------------------------------------------------------
(* analyzeABTestResults on bounded counters: one stored test whose         *)
(* counters are any that assignVariant and recordConversion calls can      *)
(* leave (a conversion needs no assignment, so neither bounds the other)   *)

MaxCount == 2        \* stored counters are the integers 0 .. MaxCount
MaxAnalyses == 2     \* analyses made of one store

\* The results object of the variants with the given counters
CountedResults(variants, counts) ==
    [i \in 1..Len(variants) |->
        [name |-> variants[i].name, conversions |-> counts[i][1], total |-> counts[i][2]]]

\* The counters of the variants: any for the first two, 0 or MaxCount for a
\* third
CounterArgs(n) ==
    {counts \in [1..n -> (0..MaxCount) \X (0..MaxCount)] :
        \A i \in 3..n : counts[i] \in {0, MaxCount} \X {0, MaxCount}}

\* abTestGroups holding test "t1" of one, two or three variants
AnalyzeGroupArgs ==
    UNION {{("t1" :> [NewTestConfig("t1", v, None) EXCEPT
                         !.results = CountedResults(v, counts)]) :
               counts \in CounterArgs(Len(v))} :
           v \in {VariantsA, VariantsAB, VariantsABC}}

InitAnalyze ==
    /\ abTestGroups \in AnalyzeGroupArgs
    /\ featureWeights = DefaultFeatureWeights
    /\ ret = NoCall /\ assigned = NoHistory /\ ops = 0
    /\ IdleScore /\ IdleNormalizer /\ IdleCorrelation /\ IdleHash /\ IdleData

NextAnalyze == \E t \in AnalyzeCalls : ops < MaxAnalyses /\ AnalyzeABTestResults(t)

SpecAnalyze == InitAnalyze /\ [][NextAnalyze]_vars

----------------------------------------------------------------------------
(* calculateOptimizedWeights and calculateStatisticalWeights on bounded    *)
(* datasets                                                                *)

MaxCustomers == 3    \* a dataset has 0 .. MaxCustomers records

\* A record of the dataset; the six metrics are given in the order of Metrics
CustomerOf(values, churnProbability, hasIncompleteData) ==
    [metrics |-> [m \in {Metrics[i] : i \in 1..Len(Metrics)} |->
                     Num(values[CHOOSE i \in 1..Len(Metrics) : Metrics[i] = m])],
     churnProbability |-> Num(churnProbability),
     hasIncompleteData |-> hasIncompleteData]

\* The records: a healthy customer, one at risk, one of mixed metrics, and
\* one flagged as incomplete.  Every metric takes two values over them.
CustomerArgs ==
    { CustomerOf(<<80, 20, 80, 60, 80, 20>>, 10, FALSE),
      CustomerOf(<<40, 60, 40, -20, 40, 60>>, 70, FALSE),
      CustomerOf(<<80, 60, 40, 60, 80, 20>>, 70, FALSE),
      CustomerOf(<<40, 20, 80, -20, 40, 60>>, 10, TRUE) }

DatasetArgs == UNION {[1..n -> CustomerArgs] : n \in 0..MaxCustomers}

InitWeights ==
    /\ dataset \in DatasetArgs
    /\ weightsResult = None
    /\ IdleManager /\ IdleScore /\ IdleNormalizer /\ IdleCorrelation /\ IdleHash
    /\ IdleMono /\ IdlePredict

CalculateOptimizedWeightsStep ==
    /\ ~weightsResult.some
    /\ weightsResult' = Some([fn |-> "calculateOptimizedWeights", used |-> dataset,
                              weights |-> CalculateOptimizedWeights(dataset).weights])
    /\ UNCHANGED <<dataset, abVars, hsVars, normVars, corrVars, hashVars,
                   monoVars, predVars>>

CalculateStatisticalWeightsStep ==
    /\ ~weightsResult.some
    /\ weightsResult' = Some([fn |-> "calculateStatisticalWeights",
                              used |-> CompleteData(dataset),
                              weights |-> CalculateStatisticalWeights(dataset).weights])
    /\ UNCHANGED <<dataset, abVars, hsVars, normVars, corrVars, hashVars,
                   monoVars, predVars>>

NextWeights == CalculateOptimizedWeightsStep \/ CalculateStatisticalWeightsStep

SpecWeights == InitWeights /\ [][NextWeights]_vars

----------------------------------------------------------------------------
(* calculateHealthScore of a new ScoreOptimizer() on a customer record and *)
(* on the same record with one feature value raised                        *)

MaxLevel == 2        \* metric values are the multiples of 1/MaxLevel in [0, 1]

MetricNames == {Metrics[i] : i \in 1..Len(Metrics)}
LevelValues == {Rat(k, MaxLevel) : k \in 0..MaxLevel}

\* The metrics that share one level in the records below
TiedMetrics == {"featureAdoptionRate", "contractValue", "timeSinceLastLogin"}

\* The records of all six metrics in which the tied metrics have the value
\* of featureAdoptionRate
SixMetricArgs ==
    {c \in [MetricNames -> LevelValues] :
        \A m \in TiedMetrics : c[m] = c["featureAdoptionRate"]}

\* The customer records: all six metrics, or all but timeSinceLastLogin
MonoCustomerArgs ==
    SixMetricArgs
        \cup {[m \in MetricNames \ {"timeSinceLastLogin"} |-> c[m]] : c \in SixMetricArgs}

\* A feature the record owns and a value not below the one the record has
MonoRaisedArgs(customerData) ==
    UNION {{[feature |-> f, value |-> v] :
               v \in {w \in LevelValues : NumLeq(customerData[f], w)}} :
           f \in DOMAIN customerData}

InitMono ==
    /\ monoCustomer \in {Some(c) : c \in MonoCustomerArgs}
    /\ monoRaised \in {Some(r) : r \in MonoRaisedArgs(monoCustomer.val)}
    /\ monoScores = None
    /\ IdleManager /\ IdleScore /\ IdleNormalizer /\ IdleCorrelation /\ IdleHash
    /\ IdleWeights /\ IdlePredict

\* optimizer.calculateHealthScore(customerData) on both records
MonoScoreStep ==
    /\ ~monoScores.some
    /\ LET low == monoCustomer.val
           high == [low EXCEPT ![monoRaised.val.feature] = monoRaised.val.value]
       IN  monoScores' =
              Some([low |-> CalculateHealthScore(Some(low), None, featureWeights),
                    high |-> CalculateHealthScore(Some(high), None, featureWeights)])
    /\ UNCHANGED <<monoCustomer, monoRaised, abVars, hsVars, normVars, corrVars,
                   hashVars, wVars, predVars>>

NextMono == MonoScoreStep

SpecMono == InitMono /\ [][NextMono]_vars

----------------------------------------------------------------------------
(* The two local scoring paths on the same customer record, each with an   *)
(* optimizer of default weights                                            *)

InitPredict ==
    /\ predCustomer \in {Some(c) : c \in MonoCustomerArgs}
    /\ realTimeResult = None
    /\ fallbackResult = None
    /\ scoringThreshold = ScoringThreshold
    /\ IdleManager /\ IdleScore /\ IdleNormalizer /\ IdleCorrelation /\ IdleHash
    /\ IdleWeights /\ IdleMono

\* The thresholds initialize is given: none (the default 0.5), 0.5, 0.9,
\* 0 and 1
ThresholdArgs == {None, Some(Rat(1, 2)), Some(Rat(9, 10)), Some(Num(0)), Some(Num(1))}

\* RealTimeScorer.initialize(modelName, threshold): this.scoringThreshold =
\* threshold (scoringModel, which only the explanation reads, is not held)
Initialize(threshold) ==
    /\ scoringThreshold' = IF threshold.some THEN threshold.val ELSE ScoringThreshold
    /\ UNCHANGED <<predCustomer, realTimeResult, fallbackResult, abVars, hsVars,
                   normVars, corrVars, hashVars, wVars, monoVars>>

RealTimeScoreStep ==
    /\ ~realTimeResult.some
    /\ realTimeResult' = Some(RealTimeScoreCustomer(predCustomer.val, featureWeights,
                                                    scoringThreshold))
    /\ UNCHANGED <<predCustomer, fallbackResult, scoringThreshold, abVars, hsVars,
                   normVars, corrVars, hashVars, wVars, monoVars>>

FallbackScoreStep ==
    /\ ~fallbackResult.some
    /\ fallbackResult' = Some(FallbackScoreCustomer(predCustomer.val, featureWeights))
    /\ UNCHANGED <<predCustomer, realTimeResult, scoringThreshold, abVars, hsVars,
                   normVars, corrVars, hashVars, wVars, monoVars>>

NextPredict ==
    \/ \E threshold \in ThresholdArgs : Initialize(threshold)
    \/ RealTimeScoreStep
    \/ FallbackScoreStep

SpecPredict == InitPredict /\ [][NextPredict]_vars

----------------------------------------------------------------------------
(* Claims about the A/B test manager *)

\* Two numbers differ by no more than a part in a thousand million
Close(a, b) == NumLeq(NumAbs(NumSub(a, b)), Rat(1, 1000000000))

\* The step just taken was a call of the named operation
Called(op) == ops' # ops /\ ret'.op = op

\* The names of the variants a test was set up with
VariantNamesOf(testConfig) ==
    {testConfig.variants[i].name : i \in 1..Len(testConfig.variants)}

\* C1: assignVariant is deterministic.  For a test stored by setupABTest and
\* any customer, every call of assignVariant(testName, customerId) returns
\* the variant the first call returned, whatever assignVariant,
\* recordConversion and analyzeABTestResults calls came in between, as long
\* as the test was not set up again.
C1_AssignVariantDeterministic ==
    [][ (/\ Called("assignVariant")
         /\ <<ret'.testName, ret'.customerId>> \in DOMAIN assigned)
        => (/\ ~ret'.threw
            /\ ret'.variant = assigned[<<ret'.testName, ret'.customerId>>].variant)
      ]_vars

\* C1 witness: a customer has been assigned twice on a test on which another
\* customer was assigned too, and assignments were counted.
C1_Witness ==
    /\ ret.op = "assignVariant"
    /\ \E k \in DOMAIN assigned :
          /\ k = <<ret.testName, ret.customerId>>
          /\ assigned[k].calls >= 2
          /\ \E j \in DOMAIN assigned : j[1] = k[1] /\ j[2] # k[2]
          /\ \E i \in 1..Len(abTestGroups[k[1]].results) :
                abTestGroups[k[1]].results[i].total >= 2

\* C2 (as claimed): recordConversion with a test name that was never set up,
\* or with a variant name that is not a variant of the named test, returns
\* false and leaves every counter of every test unchanged.
C2_RecordConversionRejectsUnknown ==
    [][ (/\ Called("recordConversion")
         /\ \/ ret'.testName \notin DOMAIN abTestGroups
            \/ ret'.variantName \notin VariantNamesOf(abTestGroups[ret'.testName]))
        => (ret'.result = FALSE /\ abTestGroups' = abTestGroups)
      ]_vars

\* C3 (as claimed): the allocation stored by a successful setupABTest sums
\* to 100, within the 0.001 the code itself tolerates, whatever the sum of
\* the allocation passed in.
C3_StoredAllocationSumsTo100 ==
    \A t \in DOMAIN abTestGroups :
        NumLeq(NumAbs(NumSub(NumSum(abTestGroups[t].allocation), Num(100))),
               Rat(1, 1000))

\* The last call threw an exception into its caller
ThrewIntoCaller == "threw" \in DOMAIN ret /\ ret.threw

\* C11 (as claimed): no operation throws into the caller, for any arguments
\* and any prior sequence of operations; every failure is absorbed and the
\* operation returns its fallback value.
C11_NoOperationThrows == ~ThrewIntoCaller

\* The variant assignVariant synthesizes for a test it does not find
DefaultVariant == [name |-> "default", weights |-> featureWeights]

\* C12 (as claimed): assignVariant with a test name that was never set up
\* returns the variant named "default" whose weights are the current
\* featureWeights, does not throw, creates no test entry and changes no
\* counter.
C12_UnknownTestGivesDefault ==
    [][ (/\ Called("assignVariant")
         /\ ret'.testName \notin DOMAIN abTestGroups)
        => (/\ ~ret'.threw
            /\ ret'.variant = DefaultVariant
            /\ abTestGroups' = abTestGroups)
      ]_vars

\* C13 (as claimed): the fractional weights held in featureWeights sum to
\* 1.0 (to within the rounding of the sum) in every reachable state: after
\* construction, with or without initial weights, and after any sequence of
\* optimizeWeightsBayesian calls, including nTrials = 0 and failing calls.
C13_FeatureWeightsSumToOne ==
    Close(NumSum(ObjectValues(featureWeights)), Num(1))

\* h * 31 + c modulo 2^32, on the four bytes of h, lowest first
Times31Plus(b, c) ==
    LET t1 == 31 * b[1] + c
        t2 == 31 * b[2] + (t1 \div 256)
        t3 == 31 * b[3] + (t2 \div 256)
        t4 == 31 * b[4] + (t3 \div 256)
    IN  <<t1 % 256, t2 % 256, t3 % 256, t4 % 256>>

RECURSIVE HornerBytes(_)
\* h after every code unit of s, from h = 0
HornerBytes(s) ==
    IF s = <<>> THEN <<0, 0, 0, 0>>
    ELSE Times31Plus(HornerBytes(SubSeq(s, 1, Len(s) - 1)), s[Len(s)])

\* The four bytes read as a signed 32-bit integer
SignedOfBytes(b) ==
    (IF b[4] >= 128 THEN b[4] - 256 ELSE b[4]) * 16777216
        + b[3] * 65536 + b[2] * 256 + b[1]

\* C16: the bucket is the absolute value of (h mod 100), where h starts at 0
\* and becomes (h*32 - h + charCode(c)) wrapped to a signed 32-bit integer
\* for each character c of customerId + ":" + testName; for every input,
\* also when h is negative or -2^31, the bucket is an integer in 0..99.
C16_BucketOfHash ==
    hashResult.some
    => LET h == SignedOfBytes(HornerBytes(hashCustomer \o Colon \o Chars(hashTest)))
       IN  /\ hashResult.val.hashValue = h
           /\ hashResult.val.hashPct \in 0..99
           /\ hashResult.val.hashPct =
                 (IF h >= 0 THEN h % 100 ELSE (100 - (h % 100)) % 100)

\* C16 witness: the hash of "gxkczl2:t1" is -2^31 and its bucket is 48.
C16_Witness ==
    /\ hashResult.some
    /\ hashCustomer = Chars("gxkczl2") /\ hashTest = "t1"
    /\ hashResult.val.hashValue = -2147483647 - 1
    /\ hashResult.val.hashPct = 48

\* The indexes at which the bucket is strictly below the running sum of the
\* allocation up to and including that index
IndexesBelow(allocation, bucket) ==
    {i \in 1..Len(allocation) : NumLess(Num(bucket), NumSum(SubSeq(allocation, 1, i)))}

\* The least element of a non-empty set of indexes
Least(S) == CHOOSE i \in S : \A j \in S : i <= j

\* The bucket of a customer on a test: the absolute value of the
\* remainder of 31-polynomial hash of customerId:testName modulo 2^32
BucketOf(testName, customerId) ==
    LET h == SignedOfBytes(HornerBytes(Chars(customerId) \o Colon \o Chars(testName)))
    IN  IF h >= 0 THEN h % 100 ELSE (100 - (h % 100)) % 100

\* The bucket of every assignVariant call made
Buckets == [c \in AssignCalls |-> BucketOf(c[1], c[2])]

\* C17: for an existing test, assignVariant returns the variant at the
\* first index at which the bucket is strictly below the running sum of the
\* allocation (when that index has a variant), and the call adds exactly 1
\* to that variant's total, leaving its conversions, every other variant's
\* counters, the allocation, the status and every other test unchanged.
C17_AssignCountsChosenVariant ==
    [][ (/\ Called("assignVariant")
         /\ ret'.testName \in DOMAIN abTestGroups)
        => LET t == ret'.testName
               testConfig == abTestGroups[t]
           IN  \A below \in {IndexesBelow(testConfig.allocation,
                                          Buckets[<<t, ret'.customerId>>])} :
                  (below # {} /\ Least(below) <= Len(testConfig.variants))
                  => LET chosen == testConfig.variants[Least(below)]
                         k == CHOOSE k \in 1..Len(testConfig.results) :
                                  testConfig.results[k].name = chosen.name
                     IN  /\ ~ret'.threw
                         /\ ret'.variant = chosen
                         /\ abTestGroups' =
                               [abTestGroups EXCEPT ![t].results[k].total = @ + 1]
      ]_vars

\* C17 witness: on a test with a conversion recorded for its first variant,
\* and with another test stored, a customer was assigned the second
\* variant: its total is 1, the first variant's counters are as they were.
C17_Witness ==
    /\ ret.op = "assignVariant" /\ ~ret.threw
    /\ ret.testName \in DOMAIN abTestGroups
    /\ DOMAIN abTestGroups = TestNames
    /\ LET testConfig == abTestGroups[ret.testName]
       IN  /\ Len(testConfig.variants) >= 2
           /\ ret.variant = testConfig.variants[2]
           /\ testConfig.results[1].conversions = 1
           /\ testConfig.results[1].total = 0
           /\ testConfig.results[2].total = 1

\* What C18 says of a call on an existing test: the first variant is
\* returned and nothing stored has changed
FallbackTaken ==
    /\ ~ret'.threw
    /\ ret'.variant = abTestGroups[ret'.testName].variants[1]
    /\ abTestGroups' = abTestGroups

\* C18 (as claimed): when the bucket is not below the cumulative allocation
\* at any index, or the allocation has more entries than there are
\* variants, assignVariant returns variant 0 of the test and increments no
\* total counter.
C18_FallbackAsClaimed ==
    [][ (/\ Called("assignVariant")
         /\ ret'.testName \in DOMAIN abTestGroups)
        => LET testConfig == abTestGroups[ret'.testName]
               below == IndexesBelow(testConfig.allocation,
                                     Buckets[<<ret'.testName, ret'.customerId>>])
           IN  (below = {} \/ Len(testConfig.allocation) > Len(testConfig.variants))
               => FallbackTaken
      ]_vars

\* C18 (amended): when the bucket is not below the cumulative allocation at
\* any index, or the first index at which it is has no variant (the
\* allocation having more entries than there are variants), assignVariant
\* returns variant 0 of the test and increments no total counter.
C18_FallbackToFirstVariant ==
    [][ (/\ Called("assignVariant")
         /\ ret'.testName \in DOMAIN abTestGroups)
        => LET testConfig == abTestGroups[ret'.testName]
           IN  \A below \in {IndexesBelow(testConfig.allocation,
                                          Buckets[<<ret'.testName, ret'.customerId>>])} :
                  (below = {} \/ Least(below) > Len(testConfig.variants))
                  => FallbackTaken
      ]_vars

\* The assignVariant calls made on a test since it was set up
CallsOn(testName) ==
    LET keys == {k \in DOMAIN assigned : k[1] = testName}
        RECURSIVE Sum(_)
        Sum(S) == IF S = {} THEN 0
                  ELSE LET k == CHOOSE k \in S : TRUE
                       IN  assigned[k].calls + Sum(S \ {k})
    IN  Sum(keys)

RECURSIVE TotalsUpTo(_, _)
\* The sum of the total counters of the first n results
TotalsUpTo(results, n) ==
    IF n = 0 THEN 0 ELSE TotalsUpTo(results, n - 1) + results[n].total

\* C18 witness: on a test whose allocation has an entry more than it has
\* variants, one customer was counted and another fell back to the first
\* variant: two calls were made and the totals add up to 1.
C18_Witness ==
    /\ ret.op = "assignVariant" /\ ~ret.threw
    /\ ret.testName \in DOMAIN abTestGroups
    /\ LET testConfig == abTestGroups[ret.testName]
       IN  /\ Len(testConfig.allocation) > Len(testConfig.variants)
           /\ IndexesBelow(testConfig.allocation,
                           Buckets[<<ret.testName, ret.customerId>>]) = {3}
           /\ ret.variant = testConfig.variants[1]
           /\ CallsOn(ret.testName) = 2
           /\ TotalsUpTo(testConfig.results, Len(testConfig.results)) = 1

\* The allocation a successful setupABTest is expected to store for the
\* allocation argument it was given: the equal split when none was given,
\* the argument itself when it sums to 100 within 0.001, the argument scaled
\* by 100/sum otherwise
ExpectedAllocation(variants, allocation) ==
    IF ~allocation.some
    THEN [i \in 1..Len(variants) |-> Rat(100, Len(variants))]
    ELSE LET sum == NumSum(allocation.val)
         IN  IF NumLeq(NumAbs(NumSub(sum, Num(100))), Rat(1, 1000))
             THEN allocation.val
             ELSE [i \in 1..Len(allocation.val) |->
                      NumDiv(NumMul(allocation.val[i], Num(100)), sum)]

\* The allocation every setupABTest call that names variants should store
ExpectedAllocations ==
    [c \in {x \in SetupCalls : x[2].some /\ Len(x[2].val) > 0} |->
        ExpectedAllocation(c[2].val, c[3])]

\* Every variant has a results entry, and every counter is 0
CountersAreZero(testConfig) ==
    /\ ResultNames(testConfig.results) = VariantNamesOf(testConfig)
    /\ \A i \in 1..Len(testConfig.results) :
          testConfig.results[i].conversions = 0 /\ testConfig.results[i].total = 0

\* C19: setupABTest on a name that already exists replaces the stored test:
\* afterwards the test has the new variants and allocation, status active
\* and conversions = 0 and total = 0 for every variant, whatever the
\* previous test of that name had counted; other tests are unchanged.
C19_SetupReplaces ==
    [][ \A c \in SetupCalls :
          (/\ c[2].some /\ Len(c[2].val) > 0
           /\ c[1] \in DOMAIN abTestGroups
           /\ Called("setupABTest") /\ ret'.testName = c[1]
           /\ SetupABTest(c[1], c[2], c[3]))
          => /\ DOMAIN abTestGroups' = DOMAIN abTestGroups
             /\ abTestGroups'[c[1]].variants = c[2].val
             /\ abTestGroups'[c[1]].allocation = ExpectedAllocations[c]
             /\ abTestGroups'[c[1]].status = "active"
             /\ CountersAreZero(abTestGroups'[c[1]])
             /\ \A t \in DOMAIN abTestGroups \ {c[1]} :
                   abTestGroups'[t] = abTestGroups[t]
      ]_vars

\* C19 witness: a test that had counted assignments or conversions was set
\* up again with three variants, while another test is stored.
C19_Witness ==
    /\ ret.op = "setupABTest" /\ ret.result.some
    /\ ret.replaced.existed /\ ret.replaced.counted
    /\ Len(abTestGroups[ret.testName].variants) = 3
    /\ CountersAreZero(abTestGroups[ret.testName])
    /\ DOMAIN abTestGroups = TestNames

\* C20: setupABTest with a missing or empty variants list returns null and
\* stores nothing, leaving any existing test of that name and all counters
\* untouched; with at least one variant and no allocation it stores an
\* equal split of 100/n per variant.
C20_SetupValidatesVariants ==
    [][ \A c \in SetupCalls :
          (/\ Called("setupABTest") /\ ret'.testName = c[1]
           /\ SetupABTest(c[1], c[2], c[3]))
          => /\ (~c[2].some \/ Len(c[2].val) = 0)
                => (ret'.result = None /\ abTestGroups' = abTestGroups)
             /\ (c[2].some /\ Len(c[2].val) > 0 /\ ~c[3].some)
                => /\ ret'.result.some
                   /\ Len(abTestGroups'[c[1]].allocation) = Len(c[2].val)
                   /\ LET share == Rat(100, Len(c[2].val))
                      IN  \A i \in 1..Len(c[2].val) :
                             abTestGroups'[c[1]].allocation[i] = share
      ]_vars

\* C20 witness: a setupABTest call returned null while the test of that
\* name, set up with three variants and no allocation (a third of 100
\* each), had counted an assignment, which it still has.
C20_Witness ==
    /\ ret.op = "setupABTest" /\ ~ret.result.some
    /\ ret.replaced.existed /\ ret.replaced.counted
    /\ LET testConfig == abTestGroups[ret.testName]
       IN  /\ Len(testConfig.variants) = 3
           /\ \A i \in 1..3 : NumEq(testConfig.allocation[i], Rat(100, 3))
           /\ \E i \in 1..3 : testConfig.results[i].total = 1

\* status: "active" | "paused" | "completed"
Statuses == {"active", "paused", "completed"}

\* The stored tests with the status of each replaced by st
WithStatus(groups, st) ==
    [t \in DOMAIN groups |-> [groups[t] EXCEPT !.status = st]]

\* assignVariant and recordConversion do on the stored tests what they would
\* do had every test another status
StatusNotConsulted ==
    /\ \A c \in AssignCalls :
          LET asIs == AssignVariantCall(abTestGroups, featureWeights, c[1], c[2])
          IN  \A st \in Statuses \ {"active"} :
                 AssignVariantCall(WithStatus(abTestGroups, st),
                                   featureWeights, c[1], c[2])
                    = [asIs EXCEPT !.groups = WithStatus(asIs.groups, st)]
    /\ \A c \in RecordCalls :
          LET asIs == RecordConversionCall(abTestGroups, c[1], c[2], c[3])
          IN  \A st \in Statuses \ {"active"} :
                 RecordConversionCall(WithStatus(abTestGroups, st),
                                      c[1], c[2], c[3])
                    = [asIs EXCEPT !.groups = WithStatus(asIs.groups, st)]

\* C21: every test is created with status active, and no sequence of
\* setupABTest, assignVariant, recordConversion and analyzeABTestResults
\* calls changes a test's status to paused or completed; assignVariant and
\* recordConversion never consult the status (they return and store the same
\* whatever status the tests have).
C21_StatusStaysActive ==
    /\ \A t \in DOMAIN abTestGroups : abTestGroups[t].status = "active"
    /\ StatusNotConsulted

\* C21 witness: a test that counted an assignment and a conversion has been
\* analysed, and is still active.
C21_Witness ==
    /\ ret.op = "analyzeABTestResults" /\ ~ret.result.error
    /\ abTestGroups[ret.testName].status = "active"
    /\ \E i \in 1..Len(abTestGroups[ret.testName].results) :
          /\ abTestGroups[ret.testName].results[i].total > 0
          /\ abTestGroups[ret.testName].results[i].conversions > 0

\* C22: recordConversion on a known test and known variant returns true;
\* with converted = true it increments that variant's conversions counter by
\* exactly 1, with converted = false it changes no counter; in both cases
\* total counters and all other variants and tests are unchanged.
C22_RecordConversionEffect ==
    [][ (/\ Called("recordConversion")
         /\ ret'.testName \in DOMAIN abTestGroups
         /\ ret'.variantName \in ResultNames(abTestGroups[ret'.testName].results))
        => LET t == ret'.testName
               k == ResultIndex(abTestGroups[t].results, ret'.variantName)
           IN  /\ ret'.result = TRUE
               /\ ret'.converted
                  => abTestGroups' =
                        [abTestGroups EXCEPT ![t].results[k].conversions = @ + 1]
               /\ ~ret'.converted => abTestGroups' = abTestGroups
      ]_vars

\* C22 witness: a conversion was recorded on the third variant of a test
\* that had counted an assignment, while another test is stored.
C22_Witness ==
    /\ ret.op = "recordConversion" /\ ret.result = TRUE /\ ret.converted
    /\ DOMAIN abTestGroups = TestNames
    /\ LET results == abTestGroups[ret.testName].results
       IN  /\ Len(results) = 3
           /\ results[3].name = ret.variantName
           /\ results[3].conversions = 1
           /\ \E i \in 1..Len(results) : results[i].total = 1

\* The conversion rate of stored counters: conversions/total, 0 if total is 0
RateOf(stats) ==
    IF stats.total > 0 THEN Rat(stats.conversions, stats.total) ELSE Num(0)

\* C23 (as claimed): analyzeABTestResults reports, for every variant of the
\* test, conversionRate = conversions/total when total > 0 and 0 when
\* total = 0, together with the variant's stored conversions and total
\* counters.
C23_AnalyzeReportsRates ==
    [][ (/\ Called("analyzeABTestResults")
         /\ ret'.testName \in DOMAIN abTestGroups)
        => LET stored == abTestGroups[ret'.testName].results
           IN  /\ ~ret'.result.error
               /\ Len(ret'.result.results) = Len(stored)
               /\ \A i \in 1..Len(stored) :
                     LET report == ret'.result.results[i]
                     IN  /\ report.name = stored[i].name
                         /\ report.conversionRate = RateOf(stored[i])
                         /\ report.conversions = stored[i].conversions
                         /\ report.total = stored[i].total
      ]_vars

\* The first variant, in iteration order, whose rate no other rate exceeds
FirstHighest(stored) ==
    Least({i \in 1..Len(stored) :
              \A j \in 1..Len(stored) : NumLeq(RateOf(stored[j]), RateOf(stored[i]))})

\* C24 (as claimed): analyzeABTestResults identifies control as the first
\* variant in the order the variants were configured in setupABTest, and
\* bestPerformer as the variant with the highest conversion rate, the first
\* in iteration order among ties; this holds for every counter state,
\* including when every variant has conversion rate 0.
C24_ControlAndBestPerformer ==
    [][ (/\ Called("analyzeABTestResults")
         /\ ret'.testName \in DOMAIN abTestGroups)
        => LET testConfig == abTestGroups[ret'.testName]
           IN  /\ ~ret'.result.error
               /\ ret'.result.control = testConfig.variants[1].name
               /\ ret'.result.bestPerformer =
                     Some(testConfig.results[FirstHighest(testConfig.results)].name)
      ]_vars

\* C25 (as claimed): for a test with more than one variant,
\* analyzeABTestResults returns recommendation = bestPerformer when the
\* computed p-value is below 0.05 and recommendation = control otherwise; in
\* particular when bestPerformer is the control itself, or when the p-value
\* is not a number, the recommendation is the control.
C25_RecommendationRule ==
    [][ (/\ Called("analyzeABTestResults")
         /\ ret'.testName \in DOMAIN abTestGroups
         /\ Len(abTestGroups[ret'.testName].variants) > 1)
        => /\ ~ret'.result.error
           /\ ret'.result.pValue.some
           /\ LET analysis == ret'.result
                  pValue == analysis.pValue.val.value
              IN  /\ analysis.recommendation =
                        IF NumLess(pValue, Alpha) THEN analysis.bestPerformer
                        ELSE Some(analysis.control)
                  /\ analysis.bestPerformer = Some(analysis.control)
                        => analysis.recommendation = Some(analysis.control)
                  /\ IsNaN(pValue)
                        => analysis.recommendation = Some(analysis.control)
      ]_vars

\* C27 (as claimed): in every state reachable by any sequence of
\* setupABTest, assignVariant and recordConversion calls, each variant's
\* conversions counter is at most its total counter, so every
\* conversionRate reported by analyzeABTestResults lies in [0,1] and the
\* Wilson interval's square-root argument is non-negative.
C27_ConversionsAtMostTotal ==
    \A t \in DOMAIN abTestGroups :
        \A i \in 1..Len(abTestGroups[t].results) :
            LET stats == abTestGroups[t].results[i]
                report == VariantReport(stats)
            IN  /\ stats.conversions <= stats.total
                /\ NumLeq(Num(0), report.conversionRate)
                /\ NumLeq(report.conversionRate, Num(1))
                /\ report.ciRadicand.some
                      => NumLeq(Num(0), report.ciRadicand.val)

\* C28: analyzeABTestResults is read-only: for a known or unknown test name
\* it leaves every test's variants, allocation, status and
\* conversions/total counters unchanged, so calling it twice with no
\* operation in between returns equal results.
C28_AnalyzeIsReadOnly ==
    [][ Called("analyzeABTestResults")
        => /\ abTestGroups' = abTestGroups
           /\ ret'.repeated => ret'.result = ret.result
      ]_vars

\* C28 witness: a test of three variants was analysed twice in a row, and
\* the second analysis names a significant best performer other than the
\* control.
C28_Witness ==
    /\ ret.op = "analyzeABTestResults" /\ ret.repeated
    /\ ~ret.result.error
    /\ Len(ret.result.results) = 3
    /\ ret.result.significant = Some(TRUE)
    /\ ret.result.recommendation # Some(ret.result.control)

----------------------------------------------------------------------------
(* Claims about calculateHealthScore *)

\* The weight map the call uses
UsedWeights == IF hsWeights.some THEN hsWeights.val ELSE featureWeights

\* The entries of the used weight map whose feature the record has
Overlap == {i \in 1..Len(UsedWeights) :
               HasProperty(DOMAIN hsRecord.val, UsedWeights[i].key)}

\* The value the record has for the i-th weighted feature
ValueAt(i) == PropertyValue(hsRecord.val, UsedWeights[i].key)

\* The overlapping entries in order, for sums over them
OverlapSeq == SelectSeq([i \in 1..Len(UsedWeights) |-> i], LAMBDA i : i \in Overlap)

\* The sum of the weights of the overlapping features
OverlapWeight == NumSum([k \in 1..Len(OverlapSeq) |-> UsedWeights[OverlapSeq[k]].value])

\* The weighted sum of the (possibly inverted) overlapping values
OverlapScore ==
    NumSum([k \in 1..Len(OverlapSeq) |->
               NumMul(UsedWeights[OverlapSeq[k]].value,
                      IF IsInverted(UsedWeights[OverlapSeq[k]].key)
                      THEN NumSub(Num(1), ValueAt(OverlapSeq[k]))
                      ELSE ValueAt(OverlapSeq[k]))])

InUnitInterval(v) == NumLeq(Num(0), v) /\ NumLeq(v, Num(1))

\* The entries of the used weight map whose feature is one of the record's
\* own features: the features present in both maps
OwnOverlap == {i \in 1..Len(UsedWeights) :
                  UsedWeights[i].key \in DOMAIN hsRecord.val}

\* The own overlapping entries in order, for sums over them
OwnOverlapSeq == SelectSeq([i \in 1..Len(UsedWeights) |-> i], LAMBDA i : i \in OwnOverlap)

\* The sum of the weights of the features present in both maps
OwnOverlapWeight ==
    NumSum([k \in 1..Len(OwnOverlapSeq) |-> UsedWeights[OwnOverlapSeq[k]].value])

\* The weighted sum of the (possibly inverted) values of the features
\* present in both maps
OwnOverlapScore ==
    NumSum([k \in 1..Len(OwnOverlapSeq) |->
               NumMul(UsedWeights[OwnOverlapSeq[k]].value,
                      IF IsInverted(UsedWeights[OwnOverlapSeq[k]].key)
                      THEN NumSub(Num(1), hsRecord.val[UsedWeights[OwnOverlapSeq[k]].key])
                      ELSE hsRecord.val[UsedWeights[OwnOverlapSeq[k]].key])])

\* C4: for every record whose feature values are in [0,1] and every weight
\* map with non-negative weights, the score returned is in [0,100], also
\* with inverted features and with weighted features missing from the
\* record.  The call does not keep it: a weighted name the record only
\* inherits (toString) counts as present, and the score is NaN.
C4_ScoreInRange ==
    (/\ hsResult.some /\ hsRecord.some
     /\ \A i \in 1..Len(UsedWeights) : NumLeq(Num(0), UsedWeights[i].value)
     /\ \A f \in DOMAIN hsRecord.val : InUnitInterval(hsRecord.val[f]))
    => (NumLeq(Num(0), hsResult.val) /\ NumLeq(hsResult.val, Num(100)))

\* C5: the score is exactly 50 whenever the weights of the features present
\* in both the weight map and the record do not add up to more than 0 (no
\* overlap, an empty weight map, weights that are zero), and whenever the
\* computation raises an error (customerData undefined); the call always
\* returns a number.  The call does not keep it: with no feature in both
\* maps, a weighted name the record only inherits makes the score NaN.
C5_FallbackFifty ==
    (/\ hsResult.some
     /\ \/ ~hsRecord.some
        \/ ~NumLess(Num(0), OwnOverlapWeight))
    => NumEq(hsResult.val, Num(50))

\* C6: with positive weights and no inverted feature name, the score is 100
\* when every weighted feature of the record equals 1 and 0 when every one
\* equals 0 (the record having at least one of them); in general the score
\* is 100 times the weight-weighted average of the (possibly inverted)
\* values of the features present in both maps.  The call does not keep it:
\* a weighted name the record only inherits enters the average as NaN.
C6_WeightedAverage ==
    (hsResult.some /\ hsRecord.some) =>
        /\ (/\ OwnOverlap # {}
            /\ \A i \in 1..Len(UsedWeights) :
                  /\ NumLess(Num(0), UsedWeights[i].value)
                  /\ ~IsInverted(UsedWeights[i].key))
           => /\ (\A i \in OwnOverlap : NumEq(hsRecord.val[UsedWeights[i].key], Num(1)))
                 => NumEq(hsResult.val, Num(100))
              /\ (\A i \in OwnOverlap : NumEq(hsRecord.val[UsedWeights[i].key], Num(0)))
                 => NumEq(hsResult.val, Num(0))
        /\ NumLess(Num(0), OwnOverlapWeight)
           => hsResult.val = NumMul(Num(100), NumDiv(OwnOverlapScore, OwnOverlapWeight))

\* Feature names that contain one of the tokens churnProbability,
\* daysSinceLastLogin, supportTickets when case is ignored, and names that
\* do not
NamesWithMarker ==
    {"churnProbability", "daysSinceLastLogin", "supportTickets", "SupportTicketsOpen"}
NamesWithoutMarker ==
    {"usage", "npsScore", "toString", "supportTicket", "supportTicketVolume",
     "timeSinceLastLogin", "productUsageFrequency", "featureAdoptionRate",
     "contractValue"}

\* The code's test agrees with the two lists
MarkerTableHolds ==
    /\ \A f \in NamesWithMarker : IsInverted(f)
    /\ \A f \in NamesWithoutMarker : ~IsInverted(f)

\* What the i-th weighted feature is claimed to contribute per unit weight
ClaimedContribution(i) ==
    IF UsedWeights[i].key \in NamesWithMarker
    THEN NumSub(Num(1), ValueAt(i))
    ELSE ValueAt(i)

\* C14: a feature's value is replaced by 1 - value exactly when its
\* lower-cased name contains the lower-cased form of churnProbability,
\* daysSinceLastLogin or supportTickets; every other feature contributes its
\* value unchanged; the feature's full weight is added to the total weight
\* in both cases.
C14_InversionRule ==
    /\ MarkerTableHolds
    /\ (hsResult.some /\ hsRecord.some /\ NumLess(Num(0), OverlapWeight))
       => hsResult.val =
            NumMul(Num(100),
                   NumDiv(NumSum([k \in 1..Len(OverlapSeq) |->
                                     NumMul(ClaimedContribution(OverlapSeq[k]),
                                            UsedWeights[OverlapSeq[k]].value)]),
                          NumSum([k \in 1..Len(OverlapSeq) |->
                                     UsedWeights[OverlapSeq[k]].value])))

\* C14 witness: a feature with a marker (in another case than the token's)
\* and a feature without one are both weighted and present, with different
\* positive weights and the same value 1: the score is 100 times the share
\* of the unmarked feature's weight.
C14_Witness ==
    /\ hsResult.some /\ hsRecord.some /\ hsWeights.some
    /\ Len(UsedWeights) = 2 /\ Overlap = {1, 2}
    /\ UsedWeights[1].key = "usage" /\ NumEq(UsedWeights[1].value, Num(1))
    /\ UsedWeights[2].key = "SupportTicketsOpen" /\ NumEq(UsedWeights[2].value, Num(2))
    /\ NumEq(ValueAt(1), Num(1)) /\ NumEq(ValueAt(2), Num(1))
    /\ NumEq(hsResult.val, NumMul(Num(100), Rat(1, 3)))

\* No name of the default weight map contains an inverted marker
NoDefaultFeatureInverted ==
    \A i \in 1..Len(DefaultFeatureWeights) : ~IsInverted(DefaultFeatureWeights[i].key)

\* C29: with the optimizer's default weight map (productUsageFrequency,
\* supportTicketVolume, featureAdoptionRate, npsScore, contractValue,
\* timeSinceLastLogin) no feature name matches an inverted marker, so
\* calculateHealthScore is non-decreasing in every one of the six feature
\* values, including supportTicketVolume and timeSinceLastLogin.
C29_DefaultScoreMonotone ==
    /\ NoDefaultFeatureInverted
    /\ {DefaultFeatureWeights[i].key : i \in 1..Len(DefaultFeatureWeights)} = MetricNames
    /\ monoScores.some => NumLeq(monoScores.val.low, monoScores.val.high)

\* C29 witness: raising supportTicketVolume from 0 to 1 on a record whose
\* other values are not all equal raised the score.
C29_Witness ==
    /\ monoScores.some
    /\ monoRaised.val.feature = "supportTicketVolume"
    /\ NumEq(monoCustomer.val["supportTicketVolume"], Num(0))
    /\ NumEq(monoRaised.val.value, Num(1))
    /\ monoCustomer.val["npsScore"] # monoCustomer.val["contractValue"]
    /\ NumLess(monoScores.val.low, monoScores.val.high)

----------------------------------------------------------------------------
(* Claims about the weight normalizer *)

WeightValuesOf(weights) == [i \in 1..Len(weights) |-> weights[i].value]

\* C7: for raw scores with a positive total, the weights returned (after the
\* rounding residual has been applied) are all non-negative integers and sum
\* to exactly 100.
C7_WeightsSumTo100 ==
    (normWeights # <<>> /\ NumLess(Num(0), NumSum(rawScores)))
    => /\ \A i \in 1..Len(normWeights) :
             IsInteger(normWeights[i].value) /\ NumLeq(Num(0), normWeights[i].value)
       /\ NumEq(NumSum(WeightValuesOf(normWeights)), Num(100))

\* C7 witness: the rounded weights did not sum to 100, so a residual was
\* applied.
C7_Witness ==
    /\ normWeights # <<>>
    /\ NumLess(Num(0), NumSum(rawScores))
    /\ ~NumEq(NumSum(RoundedWeights(rawScores)), Num(100))
    /\ \E i \in 1..Len(normWeights) : NumEq(normWeights[i].value, Num(0))

\* C8: round trip.  For raw scores with a positive total, the normalizer's
\* weights passed to calculateHealthScore with a record in which every
\* weighted feature equals 1 (no metric name is an inverted marker) give
\* exactly 100.
C8_RoundTrip ==
    (roundTrip.some /\ NumLess(Num(0), NumSum(rawScores)))
    => NumEq(roundTrip.val, Num(100))

\* C8 witness: the round trip was made on weights that are not all equal
\* and include a zero weight.
C8_Witness ==
    /\ roundTrip.some
    /\ NumLess(Num(0), NumSum(rawScores))
    /\ \E i, j \in 1..Len(normWeights) :
          /\ NumEq(normWeights[i].value, Num(0))
          /\ NumLess(Num(0), normWeights[j].value)
          /\ NumLess(normWeights[j].value, Num(100))
    /\ NumEq(roundTrip.val, Num(100))

\* 100 minus the sum of the rounded weights r
RoundingResidual(r) == NumSub(Num(100), NumSum(r))

\* C15: the weight normalizer adds the whole residual, 100 minus the sum of
\* the rounded weights, to exactly one feature: the one with the highest
\* rounded weight, the first in iteration order among equals; every other
\* feature keeps its individually rounded weight.
C15_ResidualToHighest ==
    (normWeights # <<>> /\ NumLess(Num(0), NumSum(rawScores)))
    => LET r == RoundedWeights(rawScores)
       IN  \E h \in 1..Len(normWeights) :
              /\ \A j \in 1..Len(normWeights) : NumLeq(r[j], r[h])
              /\ \A j \in 1..(h - 1) : NumLess(r[j], r[h])
              /\ NumEq(normWeights[h].value, NumAdd(r[h], RoundingResidual(r)))
              /\ \A j \in 1..Len(normWeights) :
                    j # h => NumEq(normWeights[j].value, r[j])

\* C15 witness: the rounded weights sum to more than 100, the highest
\* rounded weight is shared by the second and a later feature, and the
\* second feature alone was lowered.
C15_Witness ==
    /\ normWeights # <<>>
    /\ NumLess(Num(0), NumSum(rawScores))
    /\ LET r == RoundedWeights(rawScores)
       IN  /\ NumLess(RoundingResidual(r), Num(0))
           /\ NumLess(r[1], r[2])
           /\ \E j \in 3..Len(r) : NumEq(r[j], r[2])
           /\ \A j \in 1..Len(r) : NumLeq(r[j], r[2])
           /\ NumEq(normWeights[2].value, NumAdd(r[2], RoundingResidual(r)))
           /\ \A j \in 3..Len(r) : NumEq(normWeights[j].value, r[j])

----------------------------------------------------------------------------
(* Claims about calculateCorrelation *)

\* Sums over an array and over the products of two arrays
SumOf(x) == NumSum(x)
SumOfProducts(x, y) == NumSum([i \in 1..Len(x) |-> NumMul(x[i], y[i])])

\* The population covariance from the raw moments: E[xy] - E[x]E[y]
PopulationCovariance(x, y) ==
    LET n == Num(Len(x))
    IN  NumSub(NumDiv(SumOfProducts(x, y), n),
               NumMul(NumDiv(SumOf(x), n), NumDiv(SumOf(y), n)))

PopulationVariance(x) == PopulationCovariance(x, x)

IsConstant(x) == \A i, j \in 1..Len(x) : x[i] = x[j]

\* covariance(x, y) / sqrt(variance(x) * variance(y))
PearsonFormula(x, y) ==
    NumDiv(PopulationCovariance(x, y),
           NumSqrt(NumMul(PopulationVariance(x), PopulationVariance(y))))

\* C9 (as claimed): for arrays of equal length greater than 1 with nonzero
\* variance (neither array is constant), the correlation lies in [-1, 1] and
\* equals covariance(x,y) / sqrt(variance(x) * variance(y)) (to within the
\* rounding of the formula); the correlation of x with itself is 1, and the
\* correlation of (x, y) equals that of (y, x).
C9_CorrelationValue ==
    (/\ corrResult.some
     /\ Len(corrX) > 1
     /\ ~IsConstant(corrX)
     /\ ~IsConstant(corrY))
    => /\ NumLeq(Num(-1), corrResult.val.xy)
       /\ NumLeq(corrResult.val.xy, Num(1))
       /\ Close(corrResult.val.xy, PearsonFormula(corrX, corrY))
       /\ NumEq(corrResult.val.xx, Num(1))
       /\ NumEq(corrResult.val.xy, corrResult.val.yx)

\* C10 (as claimed): the correlation is exactly 0 whenever x is constant or
\* y is constant, for every length n >= 1: no division by zero is made.
C10_ConstantGivesZero ==
    (corrResult.some /\ (IsConstant(corrX) \/ IsConstant(corrY)))
    => /\ NumEq(corrResult.val.xy, Num(0))
       /\ NumEq(corrResult.val.yx, Num(0))

----------------------------------------------------------------------------
(* Claims about calculateOptimizedWeights and calculateStatisticalWeights *)

\* The metric, or the churn target, is constant over the records
ZeroVariance(values) == NumEq(CorrelationRadicand(values), Num(0))

\* C26 (as claimed): the per-metric correlation used to derive feature
\* importance in calculateOptimizedWeights and calculateStatisticalWeights
\* returns 0 when the metric or the churn target is constant over the
\* dataset (either variance exactly 0), so the derived weights remain finite
\* integers summing to 100 (whenever some metric does correlate with churn).
C26_ZeroVarianceGivesZero ==
    weightsResult.some
    => LET used == weightsResult.val.used
           weights == weightsResult.val.weights
           ValuesOf(i) == MetricValues(Metrics[i], used)
       IN  /\ \A i \in 1..Len(Metrics) :
                 ZeroVariance(ValuesOf(i)) => NumEq(InlineCorrelation(ValuesOf(i)), Num(0))
           /\ (\E i \in 1..Len(Metrics) :
                  /\ ~ZeroVariance(ValuesOf(i))
                  /\ ~NumEq(CorrelationNumerator(ValuesOf(i)), Num(0)))
              => /\ \A i \in 1..Len(weights) :
                        IsInteger(weights[i].value)
                 /\ NumEq(NumSum([i \in 1..Len(weights) |-> weights[i].value]), Num(100))

----------------------------------------------------------------------------
(* Claims about the local scoring paths *)

\* C30 (as claimed): the two local scoring paths agree on the binary
\* prediction derived from a health score: for the same score and the
\* default threshold 0.5, RealTimeScorer.scoreCustomer and the local
\* fallback of MLBackendAPI.scoreCustomer return the same prediction value.
C30_PredictionsAgree ==
    (/\ realTimeResult.some /\ fallbackResult.some
     /\ NumEq(realTimeResult.val.threshold, ScoringThreshold)
     /\ realTimeResult.val.score = fallbackResult.val.score)
    => realTimeResult.val.prediction = fallbackResult.val.prediction

====
